---- MODULE Spec2Model ----
(***************************************************************************)
(* Fantasy-football analytics pipeline: feature engineering over a         *)
(* performance table, the train / save cycle of the baseline model, the    *)
(* prediction script and the player predictor.                             *)
(*                                                                         *)
(* Numbers.  Fantasy points and projections are integers in the stored     *)
(* unit.  A mean is an exact fraction <<num, den>> in lowest terms with    *)
(* den > 0; the missing value (NaN) is <<0, 0>>.  A standard deviation s   *)
(* is stored as the fraction s^2 (the sample variance), and a cell of a    *)
(* 1 / (1 + s) column is stored as the same s^2: both maps are injective   *)
(* on s >= 0, so equality of cells is equality of the numbers.             *)
(***************************************************************************)
EXTENDS Integers, Sequences, FiniteSets, TLC

VARIABLES
    table,            \* the raw performance table, rows in ingestion order
    columns,          \* the optional columns the raw table carries
    rolling_windows,  \* features.rolling_windows of the configuration
    engineered,       \* result of the last engineer_all_features call
    model,            \* BaselineModel.model of the training process
    feature_columns,  \* BaselineModel.feature_columns of the training process
    files,            \* the models directory: file name -> content
    trainer_pc,       \* position of the training process inside save_model
    save_name,        \* model_name of the save_model call in progress
    last_call,        \* outcome of the last call made by the training process
    reader_pc,        \* position of the prediction script (predict.py)
    reader_err,       \* exception that ended the prediction script
    loaded,           \* (model, feature_columns) as load_model read them
    candidate,        \* columns of the data given to make_predictions
    inference,        \* column lists of the matrices passed to the model
    pp_env,           \* files the player predictor finds on disk
    pp_status,        \* how PlayerPredictor(model_path) ended
    pp_model,         \* PlayerPredictor.model
    pp_args,          \* arguments of the last constructor or predict_player call
    pp_result,        \* what the last predict_player call returned or raised
    predictor,        \* WeeklyReportGenerator.predictor: player name -> result
    report_data,      \* WeeklyReportGenerator.report_data
    returned,         \* the results the add_player calls returned, in call order
    rankings,         \* the full rankings of the last generate_report call
    sections,         \* the tier sections of the last generate_report call
    report_period,    \* <<week, season>> of the last generate_report call
    advice,           \* a probability and prediction with the tiers derived
    comparison,       \* the two results compared and what was displayed
    match_call,       \* arguments and result of _fuzzy_match_player_names
    metadata_df,      \* PlayerMetadataIntegrator.metadata_df
    nfl_data,         \* the performance table given to add_player_metadata
    result_df,        \* the table add_player_metadata returned
    saved,            \* the feature_columns the last save_model call wrote
    sidecar,          \* the characters of models/feature_columns.txt
    read_back         \* the feature_columns load_model returned

fe_vars == <<table, columns, rolling_windows, engineered>>
tr_vars == <<model, feature_columns, files, trainer_pc, save_name, last_call>>
rd_vars == <<reader_pc, reader_err, loaded, candidate, inference>>
pp_vars == <<pp_env, pp_status, pp_model, pp_args, pp_result>>
rp_vars == <<predictor, report_data, returned, rankings, sections,
             report_period>>
ad_vars == <<advice, comparison>>
md_vars == <<match_call, metadata_df, nfl_data, result_df>>
sc_vars == <<saved, sidecar, read_back>>
vars == <<fe_vars, tr_vars, rd_vars, pp_vars, rp_vars, ad_vars, md_vars, sc_vars>>

(***************************************************************************)
(* Bounds of the model                                                     *)
(***************************************************************************)
MaxRows == 3

PlayerNames == <<"Barkley", "Henry">>      \* in lexicographic order
Periods == {<<2022, 2>>, <<2023, 1>>, <<2023, 2>>}    \* <<season, week>>
Points == {1, 2}
Noise == {1}
WindowConfigs == {<<2, 3>>, <<3, 5>>}
Schemas == {{"fantasy_points", "projection"},
            {"fantasy_points", "projection", "over_performed"}}

(***************************************************************************)
(* Exact arithmetic                                                        *)
(***************************************************************************)
Abs(n) == IF n < 0 THEN -n ELSE n

RECURSIVE GCD(_, _)
GCD(a, b) == IF b = 0 THEN a ELSE GCD(b, a % b)

NaN == <<0, 0>>
IsNaN(q) == q[2] = 0

Frac(n, d) ==
    LET g == GCD(Abs(n), d)
    IN  <<n \div g, d \div g>>

FracSub(p, q) ==
    IF IsNaN(p) \/ IsNaN(q) THEN NaN
    ELSE Frac(p[1] * q[2] - q[1] * p[2], p[2] * q[2])

Int2Frac(n) == <<n, 1>>

RECURSIVE SumSeq(_)
SumSeq(s) == IF s = <<>> THEN 0 ELSE s[1] + SumSeq(Tail(s))

RECURSIVE SumSq(_)
SumSq(s) == IF s = <<>> THEN 0 ELSE s[1] * s[1] + SumSq(Tail(s))

Min(a, b) == IF a < b THEN a ELSE b

LastN(s, n) == SubSeq(s, Len(s) - Min(n, Len(s)) + 1, Len(s))

(***************************************************************************)
(* pandas primitives used by the feature engineer                          *)
(***************************************************************************)
Range(s) == {s[i] : i \in 1..Len(s)}

PlayerRank(name) == CHOOSE i \in 1..Len(PlayerNames) : PlayerNames[i] = name

\* the order of a sort on [player_name, week] alone
KeyLeq_NoSeason(a, b) ==
    \/ PlayerRank(a.player_name) < PlayerRank(b.player_name)
    \/ a.player_name = b.player_name /\ a.week <= b.week

\* lexicographic order on the sort key [player_name, season, week]
KeyLeq(a, b) ==
    \/ PlayerRank(a.player_name) < PlayerRank(b.player_name)
    \/ /\ a.player_name = b.player_name
       /\ \/ a.season < b.season
          \/ a.season = b.season /\ a.week <= b.week

\* insert r behind every row whose key is <= its own (keeps ties in order)
RECURSIVE InsertRow(_, _)
InsertRow(r, s) ==
    IF s = <<>> THEN <<r>>
    ELSE IF KeyLeq(s[Len(s)], r) THEN Append(s, r)
    ELSE Append(InsertRow(r, SubSeq(s, 1, Len(s) - 1)), s[Len(s)])

\* the table left in ingestion order
SortValues_Unsorted(df) == df

\* df.sort_values([player_col, 'season', 'week']).reset_index(drop=True)
RECURSIVE SortValues(_)
SortValues(df) ==
    IF df = <<>> THEN <<>>
    ELSE InsertRow(df[Len(df)], SortValues(SubSeq(df, 1, Len(df) - 1)))

\* the values of stat in the rows 1..i of df, whatever their player
GroupSeries_AllPlayers(df, i, j, stat) ==
    [k \in 1..(i - j + 1) |-> df[j + k - 1][stat]]

\* df.groupby(player_col)[stat]: the values of stat in the rows 1..i of df
\* that belong to the player of row i, in the order of df
RECURSIVE GroupSeries(_, _, _, _)
GroupSeries(df, i, j, stat) ==
    IF j > i THEN <<>>
    ELSE IF df[j].player_name = df[i].player_name
         THEN <<df[j][stat]>> \o GroupSeries(df, i, j + 1, stat)
         ELSE GroupSeries(df, i, j + 1, stat)

\* x.rolling(window, min_periods).mean() at the last position of x
RollingMean(x, window, min_periods) ==
    LET win == LastN(x, window)
        k == Len(win)
    IN  IF k < min_periods THEN NaN ELSE Frac(SumSeq(win), k)

\* the population variance (ddof = 0) in place of the sample variance
RollingStd_Population(x, window, min_periods) ==
    LET win == LastN(x, window)
        k == Len(win)
    IN  IF k < min_periods \/ k < 2 THEN NaN
        ELSE Frac(k * SumSq(win) - SumSeq(win) * SumSeq(win), k * k)

\* x.rolling(window, min_periods).std() at the last position of x (ddof = 1),
\* as the variance s^2
RollingStd(x, window, min_periods) ==
    LET win == LastN(x, window)
        k == Len(win)
    IN  IF k < min_periods \/ k < 2 THEN NaN
        ELSE Frac(k * SumSq(win) - SumSeq(win) * SumSeq(win), k * (k - 1))

\* series.fillna(0)
FillNa(q) == IF IsNaN(q) THEN <<0, 1>> ELSE q

\* the number 0 in a column of 1 / (1 + s) cells: a code no s^2 >= 0 uses
InvZero == <<-1, 1>>
FillNaInv(q) == IF IsNaN(q) THEN InvZero ELSE q

\* 1 / (1 + s), the cell keeps s^2
OneOverOnePlus(q) == q

(***************************************************************************)
(* FeatureEngineer (src/features/feature_engineering.py)                   *)
(***************************************************************************)
stat_columns == <<"rushing_yards", "rushing_touchdowns", "receptions",
                  "receiving_yards", "receiving_touchdowns", "fantasy_points">>

trend_stats == <<"fantasy_points", "rushing_yards", "receptions">>

Present(stats, cols) == {st \in Range(stats) : st \in cols}

\* create_rolling_features: sort, then per player the rolling mean
\* (min_periods = 1) and the rolling std (min_periods = 2, NaN filled with 0)
create_rolling_features(df, cols, windows) ==
    LET sorted == SortValues(df)
    IN  [i \in 1..Len(sorted) |->
            [rolling |->
                [st \in Present(stat_columns, cols) |->
                    [w \in Range(windows) |->
                        RollingMean(GroupSeries(sorted, i, 1, st), w, 1)]],
             rolling_std |->
                [st \in Present(stat_columns, cols) |->
                    [w \in Range(windows) |->
                        FillNa(RollingStd(GroupSeries(sorted, i, 1, st), w, 2))]]]
            @@ sorted[i]]

\* x.rolling(6, min_periods=6).mean().shift(3) at the last position of x
ShiftedMean6(x) ==
    IF Len(x) <= 3 THEN NaN
    ELSE RollingMean(SubSeq(x, 1, Len(x) - 3), 6, 6)

\* groupby(player)[stat].diff() at the last position of x
Diff(x) ==
    IF Len(x) < 2 THEN NaN ELSE Int2Frac(x[Len(x)] - x[Len(x) - 1])

\* create_trend_features
create_trend_features(df, cols) ==
    LET sorted == SortValues(df)
    IN  [i \in 1..Len(sorted) |->
            [trend_3v3 |->
                [st \in Present(trend_stats, cols) |->
                    FracSub(RollingMean(GroupSeries(sorted, i, 1, st), 3, 3),
                            ShiftedMean6(GroupSeries(sorted, i, 1, st)))],
             week_change |->
                [st \in Present(trend_stats, cols) |->
                    Diff(GroupSeries(sorted, i, 1, st))],
             consistency |->
                [st \in Present(trend_stats, cols) |->
                    OneOverOnePlus(
                        RollingStd(GroupSeries(sorted, i, 1, st), 5, 3))]]
            @@ sorted[i]]

\* create_projection_features, for a table that has 'projection',
\* 'fantasy_points' and the window-3 rolling columns
create_projection_features(df, cols) ==
    IF "projection" \notin cols THEN df
    ELSE
    LET err == [i \in 1..Len(df) |->
                   [projection_error |->
                        df[i].fantasy_points - df[i].projection] @@ df[i]]
    IN  [i \in 1..Len(df) |->
            [projection_accuracy_rolling_5 |->
                RollingMean(GroupSeries(err, i, 1, "projection_error"), 5, 3),
             projection_vs_recent |->
                FracSub(Int2Frac(df[i].projection),
                        df[i].rolling["fantasy_points"][3]),
             projection_confidence |->
                OneOverOnePlus(df[i].rolling_std["fantasy_points"][3])]
            @@ err[i]]

late_season_week == 14
early_season_week == 4

\* pd.get_dummies(df['team'], prefix='team'): one indicator per team value
TeamDummies(df, i, cols) ==
    IF "team" \notin cols THEN <<>>
    ELSE [tm \in {df[j].team : j \in 1..Len(df)} |->
            IF df[i].team = tm THEN 1 ELSE 0]

\* create_context_features
create_context_features(df, cols) ==
    [i \in 1..Len(df) |->
        [season_week |-> df[i].week,
         late_season |-> IF df[i].week >= late_season_week THEN 1 ELSE 0,
         early_season |-> IF df[i].week <= early_season_week THEN 1 ELSE 0,
         post_bye |-> 0,
         team_dummies |-> TeamDummies(df, i, cols)] @@ df[i]]

\* create_target_variable, for a table that has the flag or the pair
create_target_variable(df, cols) ==
    [i \in 1..Len(df) |->
        [target |->
            IF "over_performed" \in cols
            THEN (IF df[i].over_performed THEN 1 ELSE 0)
            ELSE (IF df[i].fantasy_points > df[i].projection THEN 1 ELSE 0)]
        @@ df[i]]

\* df[numeric_cols].fillna(0), target excepted; dropna(subset=['target'])
\* drops nothing, the target of every row being 0 or 1
FillNumeric(df, cols) ==
    [i \in 1..Len(df) |->
        [df[i] EXCEPT
            !.trend_3v3 = [st \in DOMAIN @ |-> FillNa(@[st])],
            !.week_change = [st \in DOMAIN @ |-> FillNa(@[st])],
            !.consistency = [st \in DOMAIN @ |-> FillNaInv(@[st])]]]

FillProjection(df, cols) ==
    IF "projection" \notin cols THEN df
    ELSE [i \in 1..Len(df) |->
            [df[i] EXCEPT
                !.projection_accuracy_rolling_5 = FillNa(@),
                !.projection_vs_recent = FillNa(@),
                !.projection_confidence = FillNaInv(@)]]

\* dropna(subset=['target']) that takes a target of 0 for a missing one
DropNaTarget_Zero(df) == SelectSeq(df, LAMBDA r : r.target = 1)

\* df_engineered.dropna(subset=['target'])
DropNaTarget(df) == SelectSeq(df, LAMBDA r : r.target \in {0, 1})

\* the exception engineer_all_features raises, "ok" if none
engineer_error(cols, windows) ==
    IF /\ Present(stat_columns, cols) # {}
       /\ \E w \in Range(windows) : w < 2
    THEN "ValueError"              \* rolling: min_periods 2 > window
    ELSE IF /\ "projection" \in cols
            /\ \/ "fantasy_points" \notin cols
               \/ 3 \notin Range(windows)
    THEN "KeyError"                \* projection features: missing column
    ELSE IF /\ "over_performed" \notin cols
            /\ ~ ("fantasy_points" \in cols /\ "projection" \in cols)
    THEN "ValueError"              \* no target can be derived
    ELSE "ok"

\* engineer_all_features
engineer_all_features(df, cols, windows) ==
    IF engineer_error(cols, windows) # "ok"
    THEN [status |-> engineer_error(cols, windows), rows |-> <<>>]
    ELSE [status |-> "ok",
          rows |->
            DropNaTarget(
              FillProjection(
                FillNumeric(
                  create_target_variable(
                    create_context_features(
                      create_projection_features(
                        create_trend_features(
                          create_rolling_features(df, cols, windows),
                          cols),
                        cols),
                      cols),
                    cols),
                  cols),
                cols))]

(***************************************************************************)
(* FantasyDataCollector.create_sample_data (src/data/collect_data.py)      *)
(***************************************************************************)
\* sub-units per stored unit in which the unrounded projection is drawn
RoundScale == 2

\* round(x, 2): the nearest stored unit, a tie going to the even one
Round(n, scale) ==
    LET q == n \div scale
        r == n % scale
    IN  IF 2 * r < scale THEN q
        ELSE IF 2 * r > scale THEN q + 1
        ELSE IF q % 2 = 0 THEN q ELSE q + 1

Max(a, b) == IF a > b THEN a ELSE b

\* teams[player_idx % len(teams)] of the players of the model
teams == <<"SF", "NYG">>

\* one record of the sample table: the projection is the score plus noise,
\* the flag compares the unrounded values, the stored values are rounded;
\* the team is the player's
sample_record(player, season, week, points, noise, cols) ==
    LET raw_points == RoundScale * points
        raw_projection == Max(0, raw_points - noise)
        base == [player_name |-> player, season |-> season, week |-> week,
                 fantasy_points |-> Round(raw_points, RoundScale),
                 projection |-> Round(raw_projection, RoundScale)]
        flagged == IF "over_performed" \in cols
                   THEN [over_performed |-> raw_points > raw_projection] @@ base
                   ELSE base
    IN  IF "team" \in cols
        THEN [team |-> teams[PlayerRank(player)]] @@ flagged
        ELSE flagged

Records(cols) ==
    {sample_record(p, t[1], t[2], pts, nz, cols) :
        p \in Range(PlayerNames), t \in Periods,
        pts \in Points, nz \in Noise}

(***************************************************************************)
(* The feature-engineering run                                             *)
(***************************************************************************)
NotRun == [status |-> "none", rows |-> <<>>]

FEInit ==
    /\ table = <<>>
    /\ columns \in Schemas
    /\ rolling_windows \in WindowConfigs
    /\ engineered = NotRun

\* tables with and without the score, the projection and the flag
TargetSchemas == SUBSET {"fantasy_points", "projection", "over_performed"}

SchemaInit ==
    /\ table = <<>>
    /\ columns \in TargetSchemas
    /\ rolling_windows \in WindowConfigs
    /\ engineered = NotRun

\* non-empty lists of positive window sizes, the default among them
PositiveWindowConfigs == {<<3, 5>>, <<3>>, <<5>>, <<2, 4>>, <<1, 3>>}

WindowsInit ==
    /\ table = <<>>
    /\ columns \in Schemas
    /\ rolling_windows \in PositiveWindowConfigs
    /\ engineered = NotRun

\* tables that carry the team of each row
TeamsInit ==
    /\ table = <<>>
    /\ columns = {"fantasy_points", "projection", "team"}
    /\ rolling_windows \in WindowConfigs
    /\ engineered = NotRun

\* tables of the score and the projection, several players and seasons
FrameInit ==
    /\ table = <<>>
    /\ columns = {"fantasy_points", "projection"}
    /\ rolling_windows \in WindowConfigs
    /\ engineered = NotRun

\* a record arrives in the raw table; a changed table is not yet engineered
Collect(r) ==
    /\ Len(table) < MaxRows
    /\ table' = Append(table, r)
    /\ engineered' = NotRun
    /\ UNCHANGED <<columns, rolling_windows>>

\* one player's season, week after week
MaxWeeks == 7

SeasonInit ==
    /\ table = <<>>
    /\ columns = {"fantasy_points", "projection"}
    /\ rolling_windows \in WindowConfigs
    /\ engineered = NotRun

\* the record of the player's next week arrives in the raw table
CollectWeek(points) ==
    /\ Len(table) < MaxWeeks
    /\ table' = Append(table,
                    sample_record(PlayerNames[1], 2023, Len(table) + 1,
                                  points, 1, columns))
    /\ engineered' = NotRun
    /\ UNCHANGED <<columns, rolling_windows>>

\* engineer = FeatureEngineer(); engineer.engineer_all_features(table)
Engineer ==
    /\ table # <<>>
    /\ engineered = NotRun
    /\ engineered' = engineer_all_features(table, columns, rolling_windows)
    /\ UNCHANGED <<table, columns, rolling_windows>>

(***************************************************************************)
(* BaselineModel (src/models/baseline_model.py)                            *)
(***************************************************************************)
None == <<"None">>
Absent == <<"absent">>
Partial == <<"partial">>                  \* opened for writing, not complete
RandomForest(cols) == <<"rf", cols>>      \* a forest fitted on these columns
List(cols) == <<"list", cols>>
Text(lines) == <<"text", lines>>          \* a text file, one name per line

default_model_name == "baseline_rf_model.joblib"
feature_file == "feature_columns.txt"
ModelNames == {default_model_name, "tuned_rf_model.joblib"}
FileNames == ModelNames \cup {feature_file}

\* columns of engineered tables, in table order
EngineeredColumns ==
    {<<"player_name", "season", "week", "fantasy_points", "projection",
       "fantasy_points_rolling_3", "season_week", "target">>,
     <<"player_name", "season", "week", "fantasy_points", "projection",
       "fantasy_points_rolling_3", "projection_error", "season_week",
       "target">>}

\* number of rows of class 0 and of class 1 in the target column
ClassCounts == {<<0, 1>>, <<0, 10>>, <<10, 0>>, <<1, 9>>, <<10, 10>>}

TrainingTables == [cols : EngineeredColumns, classes : ClassCounts]

\* the table of a data_path at which there is no file
NoTable == [cols |-> <<>>, classes |-> <<0, 0>>]

exclude_cols == {"target", "player_name", "team", "position", "season", "week",
                 "fantasy_points", "projection", "over_performed",
                 "performance_diff", "player_id", "opponent"}

\* columns select_dtypes(include=['number']) leaves out
NonNumeric == {"player_name", "team", "position", "opponent", "player_id",
               "over_performed"}

IsFeature(col) == col \notin NonNumeric /\ col \notin exclude_cols

\* FeatureEngineer.get_feature_columns
get_feature_columns(cols) == SelectSeq(cols, IsFeature)

FeatureLists == {get_feature_columns(c) : c \in EngineeredColumns}

test_size_num == 1            \* test_size = 0.2 = 1 / 5
test_size_den == 5
cross_validation_folds == 5

NumClasses(cl) == Cardinality({i \in 1..2 : cl[i] > 0})
Samples(cl) == cl[1] + cl[2]
CeilDiv(a, b) == (a + b - 1) \div b
NTest(cl) == CeilDiv(test_size_num * Samples(cl), test_size_den)
NTrain(cl) ==
    ((test_size_den - test_size_num) * Samples(cl)) \div test_size_den

\* train_test_split(X, y, test_size, random_state, stratify=y): "ok" or the
\* exception it raises
split_error(cl) ==
    IF NTrain(cl) = 0 THEN "ValueError"          \* empty train set
    ELSE IF \E i \in 1..2 : cl[i] = 1 THEN "ValueError"
                                     \* least populated class has 1 member
    ELSE IF NTrain(cl) < NumClasses(cl) \/ NTest(cl) < NumClasses(cl)
    THEN "ValueError"
    ELSE "ok"

\* class counts of y_train after the stratified split
TrainClasses(cl) ==
    <<((test_size_den - test_size_num) * cl[1]) \div test_size_den,
      ((test_size_den - test_size_num) * cl[2]) \div test_size_den>>

\* evaluate_model: cross_val_score, then predict_proba(X_test)[:, 1]
evaluate_error(cl) ==
    IF \A i \in 1..2 : TrainClasses(cl)[i] < cross_validation_folds
    THEN "ValueError"      \* n_splits greater than the members of each class
    ELSE IF NumClasses(TrainClasses(cl)) < 2
    THEN "IndexError"      \* predict_proba has one column, index 1 is out
    ELSE "ok"

\* train holds the class counts of the rows the forest was fitted on
Call(op, step, error, fitted, cl) ==
    [op |-> op, step |-> step, error |-> error, fitted |-> fitted,
     classes |-> cl, train |-> <<0, 0>>]

NoCall == Call("none", "none", "none", FALSE, <<0, 0>>)

TrainerInit ==
    /\ model = None
    /\ feature_columns = None
    /\ files = [f \in FileNames |-> Absent]
    /\ trainer_pc = "idle"
    /\ save_name = default_model_name
    /\ last_call = NoCall

\* BaselineModel(): a new training process
BaselineModel_init ==
    /\ trainer_pc = "idle"
    /\ model' = None
    /\ feature_columns' = None
    /\ last_call' = Call("__init__", "done", "none", FALSE, <<0, 0>>)
    /\ UNCHANGED <<files, trainer_pc, save_name>>

\* prepare_features(df)
prepare_features(df) ==
    /\ trainer_pc = "idle"
    /\ feature_columns' = List(get_feature_columns(df.cols))
    /\ last_call' = Call("prepare_features", "done", "none", FALSE, df.classes)
    /\ UNCHANGED <<model, files, trainer_pc, save_name>>

\* train_model(X, y): fits a forest on the columns of X
train_model(x_cols, cl) ==
    /\ trainer_pc = "idle"
    /\ model' = RandomForest(x_cols)
    /\ last_call' = [Call("train_model", "done", "none", TRUE, cl)
                        EXCEPT !.train = cl]
    /\ UNCHANGED <<feature_columns, files, trainer_pc, save_name>>

\* save_model(model_name) up to the opening of the model file by joblib.dump
save_model(name) ==
    /\ trainer_pc = "idle"
    /\ IF model = None
       THEN /\ last_call' = Call("save_model", "check", "ValueError", FALSE,
                                  <<0, 0>>)
            /\ UNCHANGED <<files, trainer_pc, save_name>>
       ELSE /\ files' = [files EXCEPT ![name] = Partial]
            /\ trainer_pc' = "dump"
            /\ save_name' = name
            /\ last_call' = Call("save_model", "dump", "none", FALSE, <<0, 0>>)
    /\ UNCHANGED <<model, feature_columns>>

\* joblib.dump(self.model, model_path) completes
save_dump ==
    /\ trainer_pc = "dump"
    /\ files' = [files EXCEPT ![save_name] = model]
    /\ trainer_pc' = "dumped"
    /\ UNCHANGED <<model, feature_columns, save_name, last_call>>

\* open(feature_path, 'w') truncates the sidecar; iterating a
\* feature_columns of None raises TypeError
save_open_features ==
    /\ trainer_pc = "dumped"
    /\ files' = [files EXCEPT ![feature_file] = Text(<<>>)]
    /\ IF feature_columns = None
       THEN /\ trainer_pc' = "idle"
            /\ last_call' = [last_call EXCEPT !.step = "features",
                                              !.error = "TypeError"]
       ELSE /\ trainer_pc' = "features"
            /\ UNCHANGED last_call
    /\ UNCHANGED <<model, feature_columns, save_name>>

\* the lines are written and the sidecar is closed
save_write_features ==
    /\ trainer_pc = "features"
    /\ files' = [files EXCEPT ![feature_file] = Text(feature_columns[2])]
    /\ trainer_pc' = "idle"
    /\ last_call' = [last_call EXCEPT !.step = "done"]
    /\ UNCHANGED <<model, feature_columns, save_name>>

\* train_and_evaluate with save_model() called ahead of evaluate_model
train_and_evaluate_SaveFirst(df) ==
    /\ trainer_pc = "idle"
    /\ IF df = NoTable
       THEN /\ last_call' = Call("train_and_evaluate", "load",
                                  "FileNotFoundError", FALSE, <<0, 0>>)
            /\ UNCHANGED <<model, feature_columns, files, trainer_pc, save_name>>
       ELSE
       /\ feature_columns' = List(get_feature_columns(df.cols))
       /\ IF split_error(df.classes) # "ok"
          THEN /\ last_call' = Call("train_and_evaluate", "split",
                                     split_error(df.classes), FALSE, df.classes)
               /\ UNCHANGED <<model, files, trainer_pc, save_name>>
          ELSE
          /\ model' = RandomForest(get_feature_columns(df.cols))
          /\ IF evaluate_error(df.classes) # "ok"
             THEN /\ last_call' = [Call("train_and_evaluate", "evaluate",
                                         evaluate_error(df.classes), TRUE,
                                         df.classes)
                                    EXCEPT !.train = TrainClasses(df.classes)]
                  /\ files' = [files EXCEPT ![default_model_name] =
                                   RandomForest(get_feature_columns(df.cols)),
                                                ![feature_file] =
                                   Text(get_feature_columns(df.cols))]
                  /\ UNCHANGED <<trainer_pc, save_name>>
             ELSE /\ files' = [files EXCEPT ![default_model_name] = Partial]
                  /\ trainer_pc' = "dump"
                  /\ save_name' = default_model_name
                  /\ last_call' = [Call("train_and_evaluate", "dump", "none",
                                         TRUE, df.classes)
                                    EXCEPT !.train = TrainClasses(df.classes)]

\* train_and_evaluate(data_path) up to the opening of the model file by the
\* save_model() call that ends it; df is the table at data_path, NoTable if
\* there is no such file
train_and_evaluate(df) ==
    /\ trainer_pc = "idle"
    /\ IF df = NoTable
       THEN /\ last_call' = Call("train_and_evaluate", "load",
                                  "FileNotFoundError", FALSE, <<0, 0>>)
            /\ UNCHANGED <<model, feature_columns, files, trainer_pc, save_name>>
       ELSE
       /\ feature_columns' = List(get_feature_columns(df.cols))
       /\ IF split_error(df.classes) # "ok"
          THEN /\ last_call' = Call("train_and_evaluate", "split",
                                     split_error(df.classes), FALSE, df.classes)
               /\ UNCHANGED <<model, files, trainer_pc, save_name>>
          ELSE
          /\ model' = RandomForest(get_feature_columns(df.cols))
          /\ IF evaluate_error(df.classes) # "ok"
             THEN /\ last_call' = [Call("train_and_evaluate", "evaluate",
                                         evaluate_error(df.classes), TRUE,
                                         df.classes)
                                    EXCEPT !.train = TrainClasses(df.classes)]
                  /\ UNCHANGED <<files, trainer_pc, save_name>>
             ELSE /\ files' = [files EXCEPT ![default_model_name] = Partial]
                  /\ trainer_pc' = "dump"
                  /\ save_name' = default_model_name
                  /\ last_call' = [Call("train_and_evaluate", "dump", "none",
                                         TRUE, df.classes)
                                    EXCEPT !.train = TrainClasses(df.classes)]

(***************************************************************************)
(* The prediction script (src/predict.py)                                  *)
(***************************************************************************)
NotLoaded == [model |-> None, features |-> None]

ReaderInit ==
    /\ reader_pc = "start"
    /\ reader_err = "none"
    /\ loaded = NotLoaded
    /\ candidate = {}
    /\ inference = <<>>

\* load_model: model_path.exists()
load_exists ==
    /\ reader_pc = "start"
    /\ IF files[default_model_name] = Absent
       THEN reader_pc' = "failed" /\ reader_err' = "FileNotFoundError"
       ELSE reader_pc' = "exists" /\ UNCHANGED reader_err
    /\ UNCHANGED <<loaded, candidate, inference>>

\* load_model: joblib.load(model_path); a file that is absent by now or not
\* completely written does not unpickle
load_joblib ==
    /\ reader_pc = "exists"
    /\ IF files[default_model_name] \in {Absent, Partial}
       THEN /\ reader_pc' = "failed"
            /\ reader_err' = "EOFError"
            /\ UNCHANGED loaded
       ELSE /\ reader_pc' = "model"
            /\ loaded' = [loaded EXCEPT !.model = files[default_model_name]]
            /\ UNCHANGED reader_err
    /\ UNCHANGED <<candidate, inference>>

\* load_model: the lines of the sidecar, stripped
load_features ==
    /\ reader_pc = "model"
    /\ IF files[feature_file] = Absent
       THEN /\ reader_pc' = "failed"
            /\ reader_err' = "FileNotFoundError"
            /\ UNCHANGED loaded
       ELSE /\ reader_pc' = "loaded"
            /\ loaded' = [loaded EXCEPT !.features = List(files[feature_file][2])]
            /\ UNCHANGED reader_err
    /\ UNCHANGED <<candidate, inference>>

\* data[feature_columns] looks the names up without filling a gap
select_features_Reindex(features, data_cols) == features

\* data[feature_columns]: the listed columns in the listed order, KeyError
\* (here None) if a name is no column of data
select_features(features, data_cols) ==
    IF \E i \in 1..Len(features) : features[i] \notin data_cols
    THEN None
    ELSE features

\* make_predictions(model, feature_columns, data)
make_predictions(data_cols) ==
    /\ reader_pc = "loaded"
    /\ candidate' = data_cols
    /\ LET x == select_features(loaded.features[2], data_cols)
       IN  IF x = None
           THEN /\ reader_pc' = "failed"
                /\ reader_err' = "KeyError"
                /\ UNCHANGED inference
           ELSE /\ reader_pc' = "predicted"
                /\ inference' = <<x, x>>      \* predict, then predict_proba
                /\ UNCHANGED reader_err
    /\ UNCHANGED loaded

\* the script is run again
reader_restart ==
    /\ reader_pc \in {"failed", "predicted"}
    /\ reader_pc' = "start"
    /\ reader_err' = "none"
    /\ loaded' = NotLoaded
    /\ candidate' = {}
    /\ inference' = <<>>

CandidateColumns == {Range(c) : c \in EngineeredColumns}

(***************************************************************************)
(* PlayerPredictor (src/scripts/predict_player.py, src/predict_player.py)  *)
(***************************************************************************)
\* the methods class BaselineModel defines
BaselineModelMethods ==
    {"__init__", "load_data", "prepare_features", "train_model",
     "evaluate_model", "feature_importance_analysis", "save_model",
     "train_and_evaluate"}

ModelPaths == {"outputs/models/baseline_rf_model.joblib",
               "models/baseline_rf_model.joblib",
               "models/tuned_rf_model.joblib"}

FileStates == {"absent", "corrupt", "valid"}

\* config: config/config.yaml exists; nfl_data: the NFL data directory exists
Environments ==
    [config : BOOLEAN, nfl_data : BOOLEAN, model_files : [ModelPaths -> FileStates]]

NoEnvironment ==
    [config |-> TRUE, nfl_data |-> TRUE,
     model_files |-> [f \in ModelPaths |-> "absent"]]

PredictorPlayers == {"Barkley", "Henry"}
PredictorWeeks == {1, 14}
PredictorSeasons == {2023}
PredictorConfigs == WindowConfigs \cup {<<1, 3>>, <<5>>}

PlayerColumns ==
    {"rushing_yards", "receptions", "fantasy_points", "projection", "team"}

NoArgs == [player_name |-> "", week |-> 0, season |-> 0, model_path |-> ""]

NoResult == [raised |-> "none", propagated |-> FALSE, keys |-> {}]

PredictorInit ==
    /\ pp_env = NoEnvironment
    /\ pp_status = "none"
    /\ pp_model = None
    /\ pp_args = NoArgs
    /\ pp_result = NoResult

\* PlayerPredictor.__init__ and load_model: how the construction ends, api
\* being the methods of the object BaselineModel() returns
PlayerPredictor_init(env, path, api) ==
    IF ~ env.config THEN "FileNotFoundError"    \* FeatureEngineer(): no config
    ELSE IF env.model_files[path] = "absent" THEN "exit1"
    ELSE IF "load_model" \notin api THEN "exit1"    \* AttributeError, caught
    ELSE IF env.model_files[path] = "corrupt" THEN "exit1"
    ELSE "constructed"

\* predictor = PlayerPredictor(model_path)
Construct(path) ==
    /\ pp_status = "none"
    /\ pp_status' = PlayerPredictor_init(pp_env, path, BaselineModelMethods)
    /\ pp_model' = IF ~ pp_env.config \/ pp_env.model_files[path] = "absent"
                   THEN None ELSE <<"BaselineModel">>
    /\ pp_args' = [NoArgs EXCEPT !.model_path = path]
    /\ UNCHANGED <<pp_env, pp_result>>

\* create_sample_player_data: the one-row table of the player
player_record(player, week, season, points, projection) ==
    [player_name |-> player, week |-> week, season |-> season,
     rushing_yards |-> 100, receptions |-> 3, team |-> "UNK",
     fantasy_points |-> points, projection |-> projection]

\* get_player_data: NFLDataIntegrator() raises without its files
get_player_data_error(env) ==
    IF ~ env.config \/ ~ env.nfl_data THEN "FileNotFoundError" ELSE "ok"

ResultKeys == {"player_name", "week", "season", "projection", "prediction",
               "over_perform_probability", "confidence", "recommendation",
               "key_features"}

Result(raised, propagated, keys) ==
    [raised |-> raised, propagated |-> propagated, keys |-> keys]

\* predict_player with the try around engineer_all_features left out
predict_player_Uncaught(env, windows, api, row) ==
    IF get_player_data_error(env) # "ok" THEN Result("load", FALSE, {"error"})
    ELSE IF engineer_all_features(<<row>>, PlayerColumns, windows).status # "ok"
    THEN Result("engineer", TRUE, {})
    ELSE IF ~ ({"predict_single_player", "predict_proba_single_player",
                "get_feature_importance"} \subseteq api)
    THEN Result("inference", FALSE, {"error"})
    ELSE Result("none", FALSE, ResultKeys)

\* predict_player: the stage that raised, whether the exception left the
\* method, and the keys of the dict returned
predict_player(env, windows, api, row) ==
    IF get_player_data_error(env) # "ok" THEN Result("load", FALSE, {"error"})
    ELSE IF engineer_all_features(<<row>>, PlayerColumns, windows).status # "ok"
    THEN Result("engineer", FALSE, {"error"})
    ELSE IF ~ ({"predict_single_player", "predict_proba_single_player",
                "get_feature_importance"} \subseteq api)
    THEN Result("inference", FALSE, {"error"})      \* AttributeError, caught
    ELSE Result("none", FALSE, ResultKeys)

\* result = predictor.predict_player(player_name, week, season)
PredictPlayer(row) ==
    /\ pp_status = "constructed"
    /\ pp_args' = [pp_args EXCEPT !.player_name = row.player_name,
                                  !.week = row.week, !.season = row.season]
    /\ pp_result' = predict_player(pp_env, rolling_windows,
                                   BaselineModelMethods, row)
    /\ IF get_player_data_error(pp_env) # "ok"
       THEN UNCHANGED <<table, columns, engineered>>
       ELSE /\ table' = <<row>>
            /\ columns' = PlayerColumns
            /\ engineered' =
                 engineer_all_features(<<row>>, PlayerColumns, rolling_windows)
    /\ UNCHANGED <<rolling_windows, pp_env, pp_status, pp_model>>

PlayerRecords ==
    {player_record(p, w, s, pts, pr) :
        p \in PredictorPlayers, w \in PredictorWeeks, s \in PredictorSeasons,
        pts \in Points, pr \in Points}

(***************************************************************************)
(* WeeklyReportGenerator (src/scripts/weekly_report.py)                    *)
(*                                                                         *)
(* A probability is an integer number of ten-thousandths.                  *)
(***************************************************************************)
MaxCalls == 3

Tenths(n) == n * 1000

sample_players ==
    <<"Christian McCaffrey", "Austin Ekeler", "Saquon Barkley",
      "Derrick Henry", "Nick Chubb", "Josh Jacobs", "Joe Mixon",
      "D'Andre Swift", "Alvin Kamara", "Dalvin Cook">>

\* get_confidence_level with > in place of >=
get_confidence_level_Strict(probability) ==
    IF probability > Tenths(8) THEN "HIGH"
    ELSE IF probability > Tenths(6) THEN "MEDIUM"
    ELSE "LOW"

get_confidence_level(probability) ==
    IF probability >= Tenths(8) THEN "HIGH"
    ELSE IF probability >= Tenths(6) THEN "MEDIUM"
    ELSE "LOW"

\* get_recommendation that tests the probability of the predicted class
get_recommendation_OwnClass(prediction, probability) ==
    IF prediction = 1
    THEN IF probability >= Tenths(7) THEN "STRONG START"
         ELSE "CONSIDER STARTING"
    ELSE IF Tenths(10) - probability >= Tenths(7) THEN "AVOID"
         ELSE "CONSIDER BENCHING"

\* get_recommendation that tests prediction == 0 in place of the else branch
get_recommendation_ZeroOnly(prediction, probability) ==
    IF prediction = 1
    THEN IF probability >= Tenths(7) THEN "STRONG START"
         ELSE "CONSIDER STARTING"
    ELSE IF prediction = 0
    THEN IF probability >= Tenths(7) THEN "AVOID" ELSE "CONSIDER BENCHING"
    ELSE "CONSIDER STARTING"

get_recommendation(prediction, probability) ==
    IF prediction = 1
    THEN IF probability >= Tenths(7) THEN "STRONG START"
         ELSE "CONSIDER STARTING"
    ELSE IF probability >= Tenths(7) THEN "AVOID" ELSE "CONSIDER BENCHING"

\* the dict predict_player returns when a stage failed
ErrorResult ==
    [keys |-> {"error"}, player_name |-> "", week |-> 0, season |-> 0,
     prediction |-> 0, over_perform_probability |-> 0, recommendation |-> ""]

\* the dict predict_player returns when every stage succeeded; week and
\* season are those of the call (predict_player_at)
PredictionResult(name, prediction, probability) ==
    [keys |-> ResultKeys, player_name |-> name, week |-> 0, season |-> 0,
     prediction |-> prediction, over_perform_probability |-> probability,
     recommendation |-> get_recommendation(prediction, probability)]

\* self.predictor.predict_player(player_name, week, season) for a predictor
\* of the behaviour pred
predict_player_at(pred, name, week, season) ==
    IF "error" \in pred[name].keys THEN pred[name]
    ELSE [pred[name] EXCEPT !.week = week, !.season = season]

SampleIndex(name) == CHOOSE i \in 1..Len(sample_players) : sample_players[i] = name

\* predict_player is a function of the player name for a fixed week, season,
\* model and environment.  Predictors lists the behaviours the report is
\* checked for: every call fails (the class BaselineModel as written), every
\* call succeeds with probabilities that differ, that are all equal, or that
\* repeat, a predictor that fails for every third name, and one whose
\* prediction is the class of the larger probability.
Predictors ==
    {[name \in Range(sample_players) |-> ErrorResult],
     [name \in Range(sample_players) |->
        PredictionResult(name, 1, Tenths(SampleIndex(name)))],
     [name \in Range(sample_players) |-> PredictionResult(name, 0, Tenths(5))],
     [name \in Range(sample_players) |->
        PredictionResult(name, SampleIndex(name) % 2,
                         Tenths(3 + 2 * (SampleIndex(name) % 3)))],
     [name \in Range(sample_players) |->
        IF SampleIndex(name) % 3 = 0 THEN ErrorResult
        ELSE PredictionResult(name, 1, Tenths(9 - (SampleIndex(name) % 2)))],
     [name \in Range(sample_players) |->
        PredictionResult(name,
                         IF Tenths(SampleIndex(name)) > Tenths(5) THEN 1 ELSE 0,
                         Tenths(SampleIndex(name)))]}

NoPredictor == [name \in Range(sample_players) |-> ErrorResult]

NoReport == [generated |-> FALSE, rows |-> <<>>]

NoSections ==
    [strong_starts |-> <<>>, consider_starts |-> <<>>, avoid_players |-> <<>>,
     consider_bench |-> <<>>]

NoPeriod == <<0, 0>>

\* <<week, season>> of the calls
ReportPeriods == {<<5, 2023>>, <<6, 2023>>}

ReportIdle ==
    /\ predictor = NoPredictor
    /\ report_data = <<>>
    /\ returned = <<>>
    /\ rankings = NoReport
    /\ sections = NoSections
    /\ report_period = NoPeriod

ReportInit ==
    /\ predictor \in Predictors
    /\ report_data = <<>>
    /\ returned = <<>>
    /\ rankings = NoReport
    /\ sections = NoSections
    /\ report_period = NoPeriod

\* add_player with the test of the "error" key left out
add_player_Unchecked(data, result) == Append(data, result)

\* add_player: report_data after the call that obtained result
add_player(data, result) ==
    IF "error" \notin result.keys THEN Append(data, result) ELSE data

RECURSIVE add_sample_players(_, _, _, _)
\* add_sample_players: for player in sample_players:
\* self.add_player(player, week, season)
add_sample_players(data, names, pred, period) ==
    IF names = <<>> THEN data
    ELSE add_sample_players(
             add_player(data,
                        predict_player_at(pred, Head(names), period[1],
                                          period[2])),
             Tail(names), pred, period)

\* the results the calls of add_sample_players obtain, in call order
SampleResults(pred, period) ==
    [i \in 1..Len(sample_players) |->
        predict_player_at(pred, sample_players[i], period[1], period[2])]

\* generator.add_player(player_name, week, season)
AddPlayer(name, period) ==
    /\ Len(returned) < MaxCalls
    /\ report_data' =
          add_player(report_data,
                     predict_player_at(predictor, name, period[1], period[2]))
    /\ returned' =
          Append(returned,
                 predict_player_at(predictor, name, period[1], period[2]))
    /\ UNCHANGED <<predictor, rankings, sections, report_period>>

\* generator.add_sample_players(week, season)
AddSamplePlayers(period) ==
    /\ Len(returned) < MaxCalls
    /\ report_data' =
          add_sample_players(report_data, sample_players, predictor, period)
    /\ returned' = returned \o SampleResults(predictor, period)
    /\ UNCHANGED <<predictor, rankings, sections, report_period>>

RECURSIVE InsertDescending(_, _)
\* r placed behind every element whose key is not smaller than its own
InsertDescending(r, s) ==
    IF s = <<>> THEN <<r>>
    ELSE IF Head(s).over_perform_probability >= r.over_perform_probability
         THEN <<Head(s)>> \o InsertDescending(r, Tail(s))
         ELSE <<r>> \o s

RECURSIVE InsertDescending_Unstable(_, _)
\* r placed in front of the elements with an equal key
InsertDescending_Unstable(r, s) ==
    IF s = <<>> THEN <<r>>
    ELSE IF Head(s).over_perform_probability > r.over_perform_probability
         THEN <<Head(s)>> \o InsertDescending_Unstable(r, Tail(s))
         ELSE <<r>> \o s

RECURSIVE SortedDescending_Unstable(_)
SortedDescending_Unstable(data) ==
    IF data = <<>> THEN <<>>
    ELSE InsertDescending_Unstable(data[Len(data)],
             SortedDescending_Unstable(SubSeq(data, 1, Len(data) - 1)))

RECURSIVE SortedDescending(_)
\* sorted(data, key=lambda x: x['over_perform_probability'], reverse=True):
\* a stable sort, equal keys keep their order also with reverse=True
SortedDescending(data) ==
    IF data = <<>> THEN <<>>
    ELSE InsertDescending(data[Len(data)],
             SortedDescending(SubSeq(data, 1, Len(data) - 1)))

\* _format_report, the full rankings: enumerate(data, 1)
FullRankings(data) ==
    [i \in 1..Len(data) |-> [rank |-> i, player |-> data[i]]]

\* _format_report, the tier sections: four filters over the sorted data
TierSections(data) ==
    [strong_starts |->
        SelectSeq(data, LAMBDA p :
            p.prediction = 1 /\ p.over_perform_probability >= Tenths(7)),
     consider_starts |->
        SelectSeq(data, LAMBDA p :
            /\ p.prediction = 1
            /\ Tenths(5) <= p.over_perform_probability
            /\ p.over_perform_probability < Tenths(7)),
     avoid_players |->
        SelectSeq(data, LAMBDA p :
            p.prediction = 0 /\ p.over_perform_probability >= Tenths(7)),
     consider_bench |->
        SelectSeq(data, LAMBDA p :
            /\ p.prediction = 0
            /\ Tenths(3) <= p.over_perform_probability
            /\ p.over_perform_probability < Tenths(5))]

\* generator.generate_report(week, season)
GenerateReport(period) ==
    /\ ~ rankings.generated
    /\ LET data == IF report_data = <<>>
                   THEN add_sample_players(report_data, sample_players,
                                           predictor, period)
                   ELSE report_data
       IN /\ report_data' = data
          /\ returned' = IF report_data = <<>>
                         THEN returned \o SampleResults(predictor, period)
                         ELSE returned
          /\ rankings' = [generated |-> TRUE,
                          rows |-> FullRankings(SortedDescending(data))]
          /\ sections' = TierSections(SortedDescending(data))
    /\ report_period' = period
    /\ UNCHANGED predictor

\* the names given on the command line
RequestedPlayers == {sample_players[i] : i \in 1..4}

(***************************************************************************)
(* Tiers and comparison (src/scripts/predict_player.py,                    *)
(* src/predict_player.py, src/interactive_predictor.py)                    *)
(***************************************************************************)
\* probabilities in [0, 1], on and around the thresholds
Probabilities ==
    {0, 1, 2999, 3000, 4999, 5000, 5999, 6000, 6001, 6999, 7000, 7001,
     7999, 8000, 8001, 9999, 10000}

\* values of the prediction argument
Predictions == {-1, 0, 1, 2}

NoAdvice ==
    [probability |-> 0, prediction |-> 0, confidence |-> "none",
     recommendation |-> "none"]

NoComparison ==
    [result1 |-> ErrorResult, result2 |-> ErrorResult, called |-> FALSE,
     verdict |-> "none", winner |-> "", margin |-> 0, text |-> 0]

AdviceIdle ==
    /\ advice = NoAdvice
    /\ comparison = NoComparison

AdviceInit ==
    /\ advice \in [probability : Probabilities, prediction : Predictions,
                   confidence : {"none"}, recommendation : {"none"}]
    /\ comparison = NoComparison

GetConfidenceLevel ==
    /\ advice.confidence = "none"
    /\ advice' = [advice EXCEPT
                    !.confidence = get_confidence_level(advice.probability)]
    /\ UNCHANGED comparison

GetRecommendation ==
    /\ advice.recommendation = "none"
    /\ advice' = [advice EXCEPT
                    !.recommendation =
                        get_recommendation(advice.prediction, advice.probability)]
    /\ UNCHANGED comparison

\* f"{margin:.1%}": the margin in tenths of a percent
FormatPercent1(margin) == Round(margin, 10)

Displayed(result1, result2, verdict, winner, margin) ==
    [result1 |-> result1, result2 |-> result2, called |-> TRUE,
     verdict |-> verdict, winner |-> winner, margin |-> margin,
     text |-> FormatPercent1(margin)]

\* _display_comparison whose second test is >=
display_comparison_NoTie(result1, result2) ==
    IF "error" \in result1.keys \/ "error" \in result2.keys
    THEN Displayed(result1, result2, "none", "", 0)
    ELSE IF result1.over_perform_probability > result2.over_perform_probability
    THEN Displayed(result1, result2, "winner", result1.player_name,
                   result1.over_perform_probability
                     - result2.over_perform_probability)
    ELSE Displayed(result1, result2, "winner", result2.player_name,
                   result2.over_perform_probability
                     - result1.over_perform_probability)

\* _display_comparison: what the recommendation line says
display_comparison(result1, result2) ==
    IF "error" \in result1.keys \/ "error" \in result2.keys
    THEN Displayed(result1, result2, "none", "", 0)
    ELSE IF result1.over_perform_probability > result2.over_perform_probability
    THEN Displayed(result1, result2, "winner", result1.player_name,
                   result1.over_perform_probability
                     - result2.over_perform_probability)
    ELSE IF result2.over_perform_probability > result1.over_perform_probability
    THEN Displayed(result1, result2, "winner", result2.player_name,
                   result2.over_perform_probability
                     - result1.over_perform_probability)
    ELSE Displayed(result1, result2, "tie", "", 0)

\* the results handed to a comparison
ComparedResults ==
    {ErrorResult}
      \cup {PredictionResult(name, 1, q) :
              name \in {"Saquon Barkley", "Derrick Henry"},
              q \in {5800, 6200, 6204}}

DisplayComparison(result1, result2) ==
    /\ comparison' = display_comparison(result1, result2)
    /\ UNCHANGED advice

(***************************************************************************)
(* PlayerMetadataIntegrator (src/data/player_metadata.py)                  *)
(*                                                                         *)
(* A name is the sequence of its characters.                               *)
(***************************************************************************)
MaxCandidates == 2

Lowercase ==
    [c \in {"B", "D", "I", "J", "M", "R"} |->
        CASE c = "B" -> "b" [] c = "D" -> "d" [] c = "I" -> "i"
          [] c = "J" -> "j" [] c = "M" -> "m" [] c = "R" -> "r"]

\* str.lower()
Lower(name) ==
    [i \in 1..Len(name) |->
        IF name[i] \in DOMAIN Lowercase THEN Lowercase[name[i]] ELSE name[i]]

\* the whitespace str.strip() removes, as far as it occurs in the texts here
Whitespace == {" ", "\n"}

RECURSIVE LStrip(_)
LStrip(name) ==
    IF name # <<>> /\ Head(name) \in Whitespace THEN LStrip(Tail(name))
    ELSE name

RECURSIVE RStrip(_)
RStrip(name) ==
    IF name # <<>> /\ name[Len(name)] \in Whitespace
    THEN RStrip(SubSeq(name, 1, Len(name) - 1)) ELSE name

\* str.strip()
Strip(name) == RStrip(LStrip(name))

RECURSIVE Remove(_, _)
\* str.replace(sub, ""): every occurrence of sub, from the left
Remove(name, sub) ==
    IF Len(name) < Len(sub) THEN name
    ELSE IF SubSeq(name, 1, Len(sub)) = sub
    THEN Remove(SubSeq(name, Len(sub) + 1, Len(name)), sub)
    ELSE <<Head(name)>> \o Remove(Tail(name), sub)

\* the first candidate whose lower-cased, stripped form is target
FirstEqual(candidate_names, target) ==
    LET hits == {i \in 1..Len(candidate_names) :
                    Strip(Lower(candidate_names[i])) = target}
    IN  IF hits = {} THEN None
        ELSE candidate_names[CHOOSE i \in hits : \A j \in hits : i <= j]

\* the variations list of _fuzzy_match_player_names
Variations(player_name_clean) ==
    <<player_name_clean,
      Remove(player_name_clean, <<"'">>),
      Remove(player_name_clean, <<".">>),
      Strip(Remove(Remove(player_name_clean, <<"j", "r">>), <<"s", "r">>)),
      Strip(Remove(Remove(player_name_clean, <<"i", "i", "i">>), <<"i", "i">>))>>

RECURSIVE FirstVariation(_, _)
\* for variation in variations: for candidate in candidate_names
FirstVariation(variations, candidate_names) ==
    IF variations = <<>> THEN None
    ELSE IF FirstEqual(candidate_names, Head(variations)) # None
    THEN FirstEqual(candidate_names, Head(variations))
    ELSE FirstVariation(Tail(variations), candidate_names)

\* _fuzzy_match_player_names
fuzzy_match_player_names(player_name, candidate_names) ==
    LET player_name_clean == Strip(Lower(player_name))
    IN  IF FirstEqual(candidate_names, player_name_clean) # None
        THEN FirstEqual(candidate_names, player_name_clean)
        ELSE FirstVariation(Variations(player_name_clean), candidate_names)

\* spellings of one player's name, and another player
PlainName == <<"D", "J", " ", "M", "o", "e">>

NameSpellings ==
    {PlainName,
     <<"d", "j", " ", "m", "o", "e">>,
     <<" ">> \o PlainName \o <<" ">>,
     <<"D", ".", "J", ".", " ", "M", "o", "e">>,
     <<"D", "'", "J", " ", "M", "o", "e">>,
     PlainName \o <<" ", "J", "r">>,
     PlainName \o <<" ", "J", "r", ".">>,
     PlainName \o <<" ", "I", "I", "I">>,
     <<"B", "o", " ", "R", "o", "e">>}

RECURSIVE NameLists(_)
NameLists(n) ==
    IF n = 0 THEN {<<>>}
    ELSE NameLists(n - 1)
           \cup {Append(l, c) : l \in {k \in NameLists(n - 1) : Len(k) = n - 1},
                                c \in NameSpellings}

NoMatchCall ==
    [player_name |-> <<>>, candidate_names |-> <<>>, called |-> FALSE,
     result |-> None]

\* matched = self._fuzzy_match_player_names(player_name, candidate_names)
FuzzyMatch(player_name, candidate_names) ==
    /\ ~ match_call.called
    /\ match_call' =
         [player_name |-> player_name, candidate_names |-> candidate_names,
          called |-> TRUE,
          result |-> fuzzy_match_player_names(player_name, candidate_names)]
    /\ UNCHANGED <<metadata_df, nfl_data, result_df>>

\* seasons of the metadata file and of the performance data
MetaSeasons == <<2020, 2021, 2022>>
DataSeasons == <<2021, 2022, 2023>>

\* one record of the metadata file
metadata_record(player, season) ==
    [Player |-> player, Season |-> season, Age |-> 25 + (season - 2020),
     games_played |-> 16, games_started |-> 12]

\* the metadata file with one record of player for each season of seasons
MetadataTable(player, seasons) ==
    LET kept == SelectSeq(MetaSeasons, LAMBDA y : y \in seasons)
    IN  [i \in 1..Len(kept) |-> metadata_record(player, kept[i])]

MetadataTables ==
    {MetadataTable(player, seasons) :
        player \in {PlainName, <<"B", "o", " ", "R", "o", "e">>},
        seasons \in SUBSET Range(MetaSeasons)}

\* the performance rows of one player: two weeks in each season of seasons
PerformanceTable(player, seasons) ==
    LET kept == SelectSeq(DataSeasons, LAMBDA y : y \in seasons)
    IN  [i \in 1..(2 * Len(kept)) |->
            [player_name |-> player, season |-> kept[(i + 1) \div 2],
             week |-> 2 - (i % 2)]]

PerformanceTables ==
    {PerformanceTable(<<"d", "j", " ", "m", "o", "e">>, seasons) :
        seasons \in (SUBSET Range(DataSeasons)) \ {{}}}

RECURSIVE Unique(_)
\* Series.unique(): the values in order of first appearance
Unique(values) ==
    IF values = <<>> THEN <<>>
    ELSE LET front == Unique(SubSeq(values, 1, Len(values) - 1))
             last == values[Len(values)]
         IN  IF last \in Range(front) THEN front ELSE Append(front, last)

MaxOf(numbers) == CHOOSE m \in numbers : \A k \in numbers : k <= m

\* the three cells add_player_metadata writes for a row of nfl_player in
\* season, player_metadata being the records of the matched player
MetadataCells(player_metadata, season) ==
    LET season_metadata ==
            SelectSeq(player_metadata, LAMBDA m : m.Season = season)
        available_seasons == {player_metadata[i].Season :
                                 i \in 1..Len(player_metadata)}
        latest_season == MaxOf(available_seasons)
        latest_metadata ==
            SelectSeq(player_metadata, LAMBDA m : m.Season = latest_season)[1]
        age_diff == season - latest_season
    IN  IF season_metadata # <<>>
        THEN [player_age |-> Int2Frac(season_metadata[1].Age),
              games_played |-> Int2Frac(season_metadata[1].games_played),
              games_started |-> Int2Frac(season_metadata[1].games_started)]
        ELSE IF available_seasons # {} /\ latest_season < season
        THEN [player_age |-> Int2Frac(latest_metadata.Age + age_diff),
              games_played |->
                  Int2Frac(latest_metadata.games_played + age_diff * 16),
              games_started |->
                  Int2Frac(latest_metadata.games_started + age_diff * 16)]
        ELSE [player_age |-> NaN, games_played |-> NaN, games_started |-> NaN]

\* add_player_metadata
add_player_metadata(data, metadata) ==
    LET metadata_players ==
            Unique([i \in 1..Len(metadata) |-> metadata[i].Player])
    IN  [i \in 1..Len(data) |->
            LET matched_player ==
                    fuzzy_match_player_names(data[i].player_name,
                                             metadata_players)
                player_metadata ==
                    SelectSeq(metadata, LAMBDA m : m.Player = matched_player)
            IN  (IF matched_player = None \/ player_metadata = <<>>
                 THEN [player_age |-> NaN, games_played |-> NaN,
                       games_started |-> NaN]
                 ELSE MetadataCells(player_metadata, data[i].season))
                @@ data[i]]

NotAdded == <<>>

MetadataIdle ==
    /\ match_call = NoMatchCall
    /\ metadata_df = <<>>
    /\ nfl_data = <<>>
    /\ result_df = NotAdded

MatchInit ==
    /\ match_call = NoMatchCall
    /\ metadata_df = <<>>
    /\ nfl_data = <<>>
    /\ result_df = NotAdded

MetadataInit ==
    /\ match_call = NoMatchCall
    /\ metadata_df \in MetadataTables
    /\ nfl_data \in PerformanceTables
    /\ result_df = NotAdded

\* result = integrator.add_player_metadata(nfl_data)
AddPlayerMetadata ==
    /\ result_df = NotAdded
    /\ result_df' = add_player_metadata(nfl_data, metadata_df)
    /\ UNCHANGED <<match_call, metadata_df, nfl_data>>

(***************************************************************************)
(* Specifications                                                          *)
(***************************************************************************)
(***************************************************************************)
(* The feature-column sidecar (BaselineModel.save_model writes it,         *)
(* load_model of src/predict.py reads it)                                  *)
(*                                                                         *)
(* A column name is the sequence of its characters, the file the sequence  *)
(* of the characters written to it.                                        *)
(***************************************************************************)
MaxColumns == 3

\* names of feature columns: derived columns, a column passed through from
\* a header written "week, yds" (read_csv keeps the blank), and indicator
\* columns named after team values
ColumnSpellings ==
    {<<"y", "d", "s">>,
     <<"y", "d", "s", "_", "3">>,
     <<" ", "y", "d", "s">>,
     <<"t", "_", "S", "F">>,
     <<"t", "_", "S", "F", " ">>}

RECURSIVE ColumnLists(_)
ColumnLists(n) ==
    IF n = 0 THEN {<<>>}
    ELSE ColumnLists(n - 1)
           \cup {Append(l, c) : l \in {k \in ColumnLists(n - 1) : Len(k) = n - 1},
                                c \in ColumnSpellings}

RECURSIVE WriteLines(_)
\* for col in self.feature_columns: f.write(f"{col}\n")
WriteLines(cols) ==
    IF cols = <<>> THEN <<>>
    ELSE Head(cols) \o <<"\n">> \o WriteLines(Tail(cols))

\* the index of the first line end of text, 0 if there is none
FirstLineEnd(text) ==
    IF \E i \in 1..Len(text) : text[i] = "\n"
    THEN CHOOSE i \in 1..Len(text) :
            text[i] = "\n" /\ \A j \in 1..(i - 1) : text[j] # "\n"
    ELSE 0

RECURSIVE ReadLines(_)
\* f.readlines(): the lines of the file, each with its line end
ReadLines(text) ==
    IF text = <<>> THEN <<>>
    ELSE IF FirstLineEnd(text) = 0 THEN <<text>>
    ELSE <<SubSeq(text, 1, FirstLineEnd(text))>>
            \o ReadLines(SubSeq(text, FirstLineEnd(text) + 1, Len(text)))

\* [line.strip() for line in f.readlines()]
read_feature_columns(text) ==
    [i \in 1..Len(ReadLines(text)) |-> Strip(ReadLines(text)[i])]

NotRead == [done |-> FALSE, columns |-> <<>>]

SidecarIdle ==
    /\ saved = <<>>
    /\ sidecar = <<>>
    /\ read_back = NotRead

\* save_model, the sidecar: opened with 'w', one line per feature column
SaveFeatureColumns(cols) ==
    /\ saved' = cols
    /\ sidecar' = WriteLines(cols)
    /\ read_back' = NotRead

\* load_model, the sidecar
LoadFeatureColumns ==
    /\ ~ read_back.done
    /\ read_back' = [done |-> TRUE, columns |-> read_feature_columns(sidecar)]
    /\ UNCHANGED <<saved, sidecar>>

FEIdle ==
    /\ table = <<>>
    /\ columns = {}
    /\ rolling_windows = <<>>
    /\ engineered = NotRun

\* feature engineering of a collected table
FENext ==
    \/ (\E r \in Records(columns) : Collect(r)) /\ UNCHANGED <<tr_vars, rd_vars, pp_vars, rp_vars, ad_vars, md_vars, sc_vars>>
    \/ Engineer /\ UNCHANGED <<tr_vars, rd_vars, pp_vars, rp_vars, ad_vars, md_vars, sc_vars>>

FEStart == FEInit /\ TrainerInit /\ ReaderInit /\ PredictorInit /\ ReportIdle /\ AdviceIdle /\ MetadataIdle /\ SidecarIdle

SpecFE == FEStart /\ [][FENext]_vars

SeasonNext ==
    \/ (\E points \in Points : CollectWeek(points))
          /\ UNCHANGED <<tr_vars, rd_vars, pp_vars, rp_vars, ad_vars, md_vars, sc_vars>>
    \/ Engineer /\ UNCHANGED <<tr_vars, rd_vars, pp_vars, rp_vars, ad_vars, md_vars, sc_vars>>

SeasonStart ==
    SeasonInit /\ TrainerInit /\ ReaderInit /\ PredictorInit /\ ReportIdle /\ AdviceIdle /\ MetadataIdle /\ SidecarIdle

\* feature engineering over the growing history of one player
SpecSeason == SeasonStart /\ [][SeasonNext]_vars

SchemaStart ==
    SchemaInit /\ TrainerInit /\ ReaderInit /\ PredictorInit /\ ReportIdle /\ AdviceIdle /\ MetadataIdle /\ SidecarIdle

\* feature engineering of tables of every schema
SpecSchema == SchemaStart /\ [][FENext]_vars

\* one training process calling the BaselineModel methods in any order
PersistNext ==
    \/ BaselineModel_init /\ UNCHANGED <<fe_vars, rd_vars, pp_vars, rp_vars, ad_vars, md_vars, sc_vars>>
    \/ (\E df \in TrainingTables : prepare_features(df))
            /\ UNCHANGED <<fe_vars, rd_vars, pp_vars, rp_vars, ad_vars, md_vars, sc_vars>>
    \/ (\E c \in FeatureLists, cl \in ClassCounts : train_model(c, cl))
            /\ UNCHANGED <<fe_vars, rd_vars, pp_vars, rp_vars, ad_vars, md_vars, sc_vars>>
    \/ (\E name \in ModelNames : save_model(name))
            /\ UNCHANGED <<fe_vars, rd_vars, pp_vars, rp_vars, ad_vars, md_vars, sc_vars>>
    \/ (\E df \in TrainingTables \cup {NoTable} : train_and_evaluate(df))
            /\ UNCHANGED <<fe_vars, rd_vars, pp_vars, rp_vars, ad_vars, md_vars, sc_vars>>
    \/ save_dump /\ UNCHANGED <<fe_vars, rd_vars, pp_vars, rp_vars, ad_vars, md_vars, sc_vars>>
    \/ save_open_features /\ UNCHANGED <<fe_vars, rd_vars, pp_vars, rp_vars, ad_vars, md_vars, sc_vars>>
    \/ save_write_features /\ UNCHANGED <<fe_vars, rd_vars, pp_vars, rp_vars, ad_vars, md_vars, sc_vars>>

PersistInit == FEIdle /\ TrainerInit /\ ReaderInit /\ PredictorInit /\ ReportIdle /\ AdviceIdle /\ MetadataIdle /\ SidecarIdle

SpecPersist == PersistInit /\ [][PersistNext]_vars

\* the training pipeline (train_and_evaluate) next to the prediction script
ServeNext ==
    \/ (\E df \in TrainingTables \cup {NoTable} : train_and_evaluate(df))
            /\ UNCHANGED <<fe_vars, rd_vars, pp_vars, rp_vars, ad_vars, md_vars, sc_vars>>
    \/ save_dump /\ UNCHANGED <<fe_vars, rd_vars, pp_vars, rp_vars, ad_vars, md_vars, sc_vars>>
    \/ save_open_features /\ UNCHANGED <<fe_vars, rd_vars, pp_vars, rp_vars, ad_vars, md_vars, sc_vars>>
    \/ save_write_features /\ UNCHANGED <<fe_vars, rd_vars, pp_vars, rp_vars, ad_vars, md_vars, sc_vars>>
    \/ load_exists /\ UNCHANGED <<fe_vars, tr_vars, pp_vars, rp_vars, ad_vars, md_vars, sc_vars>>
    \/ load_joblib /\ UNCHANGED <<fe_vars, tr_vars, pp_vars, rp_vars, ad_vars, md_vars, sc_vars>>
    \/ load_features /\ UNCHANGED <<fe_vars, tr_vars, pp_vars, rp_vars, ad_vars, md_vars, sc_vars>>
    \/ (\E d \in CandidateColumns : make_predictions(d))
            /\ UNCHANGED <<fe_vars, tr_vars, pp_vars, rp_vars, ad_vars, md_vars, sc_vars>>
    \/ reader_restart /\ UNCHANGED <<fe_vars, tr_vars, pp_vars, rp_vars, ad_vars, md_vars, sc_vars>>

ServeInit == FEIdle /\ TrainerInit /\ ReaderInit /\ PredictorInit /\ ReportIdle /\ AdviceIdle /\ MetadataIdle /\ SidecarIdle

SpecServe == ServeInit /\ [][ServeNext]_vars

\* the construction of a PlayerPredictor in any environment
ConstructInit ==
    /\ FEIdle /\ TrainerInit /\ ReaderInit /\ ReportIdle /\ AdviceIdle /\ MetadataIdle /\ SidecarIdle
    /\ pp_env \in Environments
    /\ pp_status = "none"
    /\ pp_model = None
    /\ pp_args = NoArgs
    /\ pp_result = NoResult

ConstructNext ==
    (\E path \in ModelPaths : Construct(path))
        /\ UNCHANGED <<fe_vars, tr_vars, rd_vars, rp_vars, ad_vars, md_vars, sc_vars>>

SpecConstruct == ConstructInit /\ [][ConstructNext]_vars

\* predict_player on a PlayerPredictor whose fields are as __init__ and
\* load_model assign them (model_path, model = BaselineModel(),
\* feature_engineer with its configuration)
PredictPlayerInit ==
    /\ table = <<>>
    /\ columns = PlayerColumns
    /\ rolling_windows \in PredictorConfigs
    /\ engineered = NotRun
    /\ TrainerInit /\ ReaderInit /\ ReportIdle /\ AdviceIdle /\ MetadataIdle /\ SidecarIdle
    /\ pp_env \in {e \in Environments :
                        \A f \in ModelPaths : e.model_files[f] = "valid"}
    /\ pp_status = "constructed"
    /\ pp_model = <<"BaselineModel">>
    /\ pp_args = [NoArgs EXCEPT !.model_path = "models/baseline_rf_model.joblib"]
    /\ pp_result = NoResult

PredictPlayerNext ==
    (\E row \in PlayerRecords : PredictPlayer(row))
        /\ UNCHANGED <<tr_vars, rd_vars, rp_vars, ad_vars, md_vars, sc_vars>>

SpecPredictPlayer == PredictPlayerInit /\ [][PredictPlayerNext]_vars

ReportNext ==
    \/ (\E name \in RequestedPlayers, period \in ReportPeriods :
            AddPlayer(name, period))
          /\ UNCHANGED <<fe_vars, tr_vars, rd_vars, pp_vars, ad_vars, md_vars, sc_vars>>
    \/ (\E period \in ReportPeriods : AddSamplePlayers(period))
          /\ UNCHANGED <<fe_vars, tr_vars, rd_vars, pp_vars, ad_vars, md_vars, sc_vars>>
    \/ (\E period \in ReportPeriods : GenerateReport(period))
          /\ UNCHANGED <<fe_vars, tr_vars, rd_vars, pp_vars, ad_vars, md_vars, sc_vars>>

ReportStart ==
    FEIdle /\ TrainerInit /\ ReaderInit /\ PredictorInit /\ ReportInit /\ AdviceIdle /\ MetadataIdle /\ SidecarIdle

SpecReport == ReportStart /\ [][ReportNext]_vars

AdviceNext ==
    \/ GetConfidenceLevel
          /\ UNCHANGED <<fe_vars, tr_vars, rd_vars, pp_vars, rp_vars, md_vars, sc_vars>>
    \/ GetRecommendation
          /\ UNCHANGED <<fe_vars, tr_vars, rd_vars, pp_vars, rp_vars, md_vars, sc_vars>>
    \/ \E result1, result2 \in ComparedResults :
          DisplayComparison(result1, result2)
            /\ UNCHANGED <<fe_vars, tr_vars, rd_vars, pp_vars, rp_vars, md_vars, sc_vars>>

AdviceStart ==
    FEIdle /\ TrainerInit /\ ReaderInit /\ PredictorInit /\ ReportIdle /\ AdviceInit
    /\ MetadataIdle /\ SidecarIdle

SpecAdvice == AdviceStart /\ [][AdviceNext]_vars

MatchNext ==
    (\E player_name \in NameSpellings, candidate_names \in NameLists(MaxCandidates) :
        FuzzyMatch(player_name, candidate_names))
      /\ UNCHANGED <<fe_vars, tr_vars, rd_vars, pp_vars, rp_vars, ad_vars, sc_vars>>

MatchStart ==
    /\ FEIdle /\ TrainerInit /\ ReaderInit /\ PredictorInit /\ ReportIdle
    /\ AdviceIdle /\ MatchInit /\ SidecarIdle

\* name matching over the spellings of a name
SpecMatch == MatchStart /\ [][MatchNext]_vars

MetadataNext ==
    AddPlayerMetadata
      /\ UNCHANGED <<fe_vars, tr_vars, rd_vars, pp_vars, rp_vars, ad_vars, sc_vars>>

MetadataStart ==
    /\ FEIdle /\ TrainerInit /\ ReaderInit /\ PredictorInit /\ ReportIdle
    /\ AdviceIdle /\ MetadataInit /\ SidecarIdle

\* the integration of the metadata file into a performance table
SpecMetadata == MetadataStart /\ [][MetadataNext]_vars

WindowsStart ==
    /\ WindowsInit /\ TrainerInit /\ ReaderInit /\ PredictorInit /\ ReportIdle
    /\ AdviceIdle /\ MetadataIdle /\ SidecarIdle

\* feature engineering under every configured window list
SpecWindows == WindowsStart /\ [][FENext]_vars

TeamsStart ==
    /\ TeamsInit /\ TrainerInit /\ ReaderInit /\ PredictorInit /\ ReportIdle
    /\ AdviceIdle /\ MetadataIdle /\ SidecarIdle

\* feature engineering of tables with a team column
SpecTeams == TeamsStart /\ [][FENext]_vars

FrameStart ==
    /\ FrameInit /\ TrainerInit /\ ReaderInit /\ PredictorInit /\ ReportIdle
    /\ AdviceIdle /\ MetadataIdle /\ SidecarIdle

\* feature engineering of tables in which rows come and go
SpecFrame == FrameStart /\ [][FENext]_vars

SidecarNext ==
    \/ (\E cols \in ColumnLists(MaxColumns) : SaveFeatureColumns(cols))
          /\ UNCHANGED <<fe_vars, tr_vars, rd_vars, pp_vars, rp_vars, ad_vars, md_vars>>
    \/ LoadFeatureColumns
          /\ UNCHANGED <<fe_vars, tr_vars, rd_vars, pp_vars, rp_vars, ad_vars, md_vars>>

SidecarStart ==
    /\ FEIdle /\ TrainerInit /\ ReaderInit /\ PredictorInit /\ ReportIdle
    /\ AdviceIdle /\ MetadataIdle /\ SidecarIdle

\* the feature-column list saved and read back
SpecSidecar == SidecarStart /\ [][SidecarNext]_vars

(***************************************************************************)
(* Properties of the feature engineer                                      *)
(***************************************************************************)
Key(r) == <<r.player_name, r.season, r.week>>

KeysUnique(df) ==
    \A i, j \in 1..Len(df) : Key(df[i]) = Key(df[j]) => i = j

Earlier(a, b) ==
    a.season < b.season \/ (a.season = b.season /\ a.week < b.week)

\* the rows of the player of t up to and including the period of t
History(df, t) ==
    {u \in Range(df) : u.player_name = t.player_name /\ ~ Earlier(t, u)}

\* the latest k rows of a history
Latest(hist, k) ==
    {u \in hist : Cardinality({v \in hist : Earlier(u, v)}) < k}

RECURSIVE SumOver(_, _)
SumOver(rows, st) ==
    IF rows = {} THEN 0
    ELSE LET u == CHOOSE u \in rows : TRUE
         IN  u[st] + SumOver(rows \ {u}, st)

\* sum over the rows of (k * x - total)^2
RECURSIVE SumSqDev(_, _, _, _)
SumSqDev(rows, st, k, total) ==
    IF rows = {} THEN 0
    ELSE LET u == CHOOSE u \in rows : TRUE
         IN  (k * u[st] - total) * (k * u[st] - total)
                + SumSqDev(rows \ {u}, st, k, total)

EngineeredRow(t) ==
    CHOOSE r \in Range(engineered.rows) : Key(r) = Key(t)

Engineered == engineered.status = "ok"

\* C1: in every row engineer_all_features returns, target = 1 exactly when
\* fantasy_points > projection, whatever columns the input table carries.
C1_TargetIffExceedsProjection ==
    Engineered =>
        \A i \in 1..Len(engineered.rows) :
            (engineered.rows[i].target = 1)
                <=> (engineered.rows[i].fantasy_points
                        > engineered.rows[i].projection)

\* C2: for every player, configured window w and present statistic, the
\* rolling column at the player's n-th row in (season, week) order is the
\* arithmetic mean of the player's latest min(w, n) values, seasons
\* notwithstanding.
C2_RollingMeanOfLatest ==
    (Engineered /\ KeysUnique(table)) =>
        \A t \in Range(table) :
          /\ \E r \in Range(engineered.rows) : Key(r) = Key(t)
          /\ \A st \in Present(stat_columns, columns) :
               \A w \in Range(rolling_windows) :
                 LET hist == History(table, t)
                     k == Min(w, Cardinality(hist))
                     q == EngineeredRow(t).rolling[st][w]
                 IN  /\ q[2] > 0
                     /\ q[1] * k = q[2] * SumOver(Latest(hist, k), st)

\* a window that slides across a season boundary: the player's third row, a
\* window of 2, the earliest value differing from the later ones
C2_Witness ==
    /\ Engineered /\ KeysUnique(table)
    /\ \E t \in Range(table) :
         /\ Cardinality(History(table, t)) = 3
         /\ \E u \in History(table, t) : u.season < t.season
         /\ 2 \in Range(rolling_windows)
         /\ EngineeredRow(t).rolling["fantasy_points"][2]
                # EngineeredRow(t).rolling["fantasy_points"][3]

\* C3: the rolling std column is 0 at a player's first row and the unbiased
\* sample standard deviation of the latest min(w, n) values from the second
\* row on; it is never missing.  (Cells hold the variance.)
C3_RollingStdUnbiased ==
    (Engineered /\ KeysUnique(table)) =>
        \A t \in Range(table) :
          \A st \in Present(stat_columns, columns) :
            \A w \in Range(rolling_windows) :
              LET hist == History(table, t)
                  n == Cardinality(hist)
                  k == Min(w, n)
                  total == SumOver(Latest(hist, k), st)
                  q == EngineeredRow(t).rolling_std[st][w]
              IN  /\ q[2] > 0
                  /\ n < 2 => q = <<0, 1>>
                  /\ n >= 2 =>
                        q[1] * (k * k * (k - 1))
                            = q[2] * SumSqDev(Latest(hist, k), st, k, total)

\* a player's third row with a non-zero deviation in the window
C3_Witness ==
    /\ Engineered /\ KeysUnique(table)
    /\ \E t \in Range(table) :
         /\ Cardinality(History(table, t)) = 3
         /\ \E w \in Range(rolling_windows) :
              EngineeredRow(t).rolling_std["fantasy_points"][w][1] > 0
    /\ \E t \in Range(table) :
         /\ Cardinality(History(table, t)) = 1
         /\ \A w \in Range(rolling_windows) :
              EngineeredRow(t).rolling_std["fantasy_points"][w] = <<0, 1>>

\* the table with the rows i and i + 1 exchanged
SwapRows(df, i) ==
    [j \in 1..Len(df) |->
        IF j = i THEN df[i + 1] ELSE IF j = i + 1 THEN df[i] ELSE df[j]]

\* C4: the output of engineer_all_features is the same table for every order
\* of the input rows, the keys being unique, and the same on a second run.
\* Every order of a set of rows is a table the specification reaches, so the
\* output is one for all permutations once it is one for the exchange of any
\* two neighbouring rows of every reachable table.
C4_OrderIndependent ==
    (engineered.status # "none" /\ KeysUnique(table)) =>
        /\ engineer_all_features(table, columns, rolling_windows) = engineered
        /\ \A i \in 1..(Len(table) - 1) :
             engineer_all_features(SwapRows(table, i), columns, rolling_windows)
                = engineered

\* three rows with unique keys ingested out of (player, season, week) order
C4_Witness ==
    /\ Engineered /\ KeysUnique(table)
    /\ Len(table) = 3
    /\ SortValues(table) # table
    /\ \E i \in 1..2 : ~ KeyLeq(table[i], table[i + 1])

(***************************************************************************)
(* Properties of the model artifact and the prediction script              *)
(***************************************************************************)
\* C5: whenever the training process is between calls, every model file in
\* the models directory has next to it a feature-column list equal, in
\* order, to the columns that model was fitted on.
C5_ArtifactHasItsFeatureList ==
    trainer_pc = "idle" =>
        \A name \in ModelNames :
            files[name] # Absent =>
                /\ files[name] # Partial
                /\ files[feature_file] # Absent
                /\ files[feature_file] = Text(files[name][2])

\* C6: the prediction script never meets a partially written model file and
\* never loads a model together with a feature list other than the one the
\* model was fitted on.
C6_ReaderSeesOneTrainingRun ==
    /\ reader_err # "EOFError"
    /\ reader_pc \in {"loaded", "predicted"} =>
            loaded.features = List(loaded.model[2])

MissingFeatures ==
    {i \in 1..Len(loaded.features[2]) : loaded.features[2][i] \notin candidate}

\* C7: make_predictions raises before any call of the model when a persisted
\* feature name is no column of the candidate data, and otherwise hands the
\* model exactly the persisted columns in the persisted order.
C7_MismatchRaisesBeforeInference ==
    candidate # {} =>
        /\ MissingFeatures # {} =>
                /\ reader_pc = "failed"
                /\ reader_err = "KeyError"
                /\ inference = <<>>
        /\ MissingFeatures = {} =>
                /\ reader_pc = "predicted"
                /\ inference = <<loaded.features[2], loaded.features[2]>>

\* a persisted feature is missing from the candidate data and the call failed
C7_Witness ==
    /\ candidate # {}
    /\ MissingFeatures # {}
    /\ reader_err = "KeyError"

\* C8: train_and_evaluate on a table whose target has a single class raises at
\* the stratified split, before a model is fitted and before an artifact is
\* written.
C8_SingleClassRaisesAtSplit ==
    (last_call.op = "train_and_evaluate" /\ NumClasses(last_call.classes) = 1) =>
        /\ last_call.step = "split"
        /\ last_call.error # "none"
        /\ ~ last_call.fitted

(***************************************************************************)
(* Properties of the player predictor                                      *)
(***************************************************************************)
\* C9: PlayerPredictor(model_path) completes with a loaded model exactly when
\* the model file exists and is loadable; with the model file absent the
\* process ends during construction.  Stated for the environments in which
\* the configuration file config/config.yaml exists.
C9_ConstructedIffModelLoadable ==
    (pp_status # "none" /\ pp_env.config) =>
        /\ (pp_status = "constructed")
              <=> (pp_env.model_files[pp_args.model_path] = "valid")
        /\ pp_env.model_files[pp_args.model_path] = "absent"
              => pp_status = "exit1"

\* C10: no exception raised while loading player data, engineering features
\* or running inference leaves predict_player: the call returns a dict with
\* an "error" key then, and otherwise a dict without "error" that has all of
\* player_name, week, season, projection, prediction,
\* over_perform_probability, confidence, recommendation and key_features.
C10_PredictPlayerIsolatesFailures ==
    pp_args.player_name # "" =>
        /\ ~ pp_result.propagated
        /\ pp_result.raised # "none" => "error" \in pp_result.keys
        /\ pp_result.raised = "none" => pp_result.keys = ResultKeys
        /\ (get_player_data_error(pp_env) # "ok" \/ engineered.status # "ok")
              => "error" \in pp_result.keys

\* a call in which the data loaded and engineer_all_features raised
C10_Witness ==
    /\ pp_args.player_name # ""
    /\ get_player_data_error(pp_env) = "ok"
    /\ engineered.status \in {"ValueError", "KeyError"}
    /\ pp_result = Result("engineer", FALSE, {"error"})

(***************************************************************************)
(* Properties of the weekly report                                         *)
(***************************************************************************)
NonErrors(results) == SelectSeq(results, LAMBDA r : "error" \notin r.keys)

\* C11: an add_player call whose prediction returns an error result leaves
\* report_data unchanged and does not affect later calls: report_data holds
\* exactly the non-error results of the calls made so far, in call order.
C11_ReportDataIsNonErrorResults ==
    /\ [](report_data = NonErrors(returned))
    /\ [][\A name \in RequestedPlayers, period \in ReportPeriods :
            (AddPlayer(name, period) /\ "error" \in predictor[name].keys)
                => report_data' = report_data]_vars

\* an error result between two collected results
C11_Witness ==
    /\ Len(returned) = 3
    /\ "error" \in returned[2].keys
    /\ Len(report_data) = 2
    /\ report_data = <<returned[1], returned[3]>>

\* the results of probability q, in their order in results
WithProbability(results, q) ==
    SelectSeq(results, LAMBDA r : r.over_perform_probability = q)

\* rows ranks every result of data once, by descending probability, ties in
\* the order of data
RankedStably(rows, data) ==
    /\ Len(rows) = Len(data)
    /\ \A i \in 1..Len(rows) : rows[i].rank = i
    /\ \A r \in Range(data) :
          Cardinality({i \in 1..Len(rows) : rows[i].player = r})
            = Cardinality({i \in 1..Len(data) : data[i] = r})
    /\ \A i, j \in 1..Len(rows) :
          i < j => rows[i].player.over_perform_probability
                      >= rows[j].player.over_perform_probability
    /\ \A q \in {r.over_perform_probability : r \in Range(data)} :
          WithProbability([i \in 1..Len(rows) |-> rows[i].player], q)
            = WithProbability(data, q)

\* C14: the full rankings produced by generate_report list every collected
\* result exactly once with ranks 1..n in non-increasing order of
\* over_perform_probability; results of equal probability keep the order in
\* which they were added.
C14_RankingsSortedAndStable ==
    [][rankings' # rankings => RankedStably(rankings'.rows, report_data')]_vars

\* a report in which two results tie and a later result outranks an earlier
C14_Witness ==
    /\ rankings.generated
    /\ Len(rankings.rows) >= 3
    /\ \E i \in 1..(Len(rankings.rows) - 1) :
          /\ rankings.rows[i].player.over_perform_probability
                = rankings.rows[i + 1].player.over_perform_probability
          /\ rankings.rows[i].player # rankings.rows[i + 1].player
    /\ \E i, j \in 1..Len(report_data) :
          /\ i < j
          /\ report_data[i].over_perform_probability
                < report_data[j].over_perform_probability

(***************************************************************************)
(* Properties of the tiers and the comparison                              *)
(***************************************************************************)
\* C12: get_confidence_level(p) is HIGH iff p >= 0.8, MEDIUM iff
\* 0.6 <= p < 0.8 and LOW iff p < 0.6, for every p in [0, 1].
C12_ConfidenceTiers ==
    advice.confidence # "none" =>
        /\ advice.confidence = "HIGH" <=> advice.probability >= Tenths(8)
        /\ advice.confidence = "MEDIUM"
              <=> (Tenths(6) <= advice.probability
                   /\ advice.probability < Tenths(8))
        /\ advice.confidence = "LOW" <=> advice.probability < Tenths(6)

\* the boundary 0.8 rated HIGH
C12_Witness ==
    /\ advice.probability = Tenths(8)
    /\ advice.confidence = "HIGH"

\* C13: get_recommendation(prediction, p) is STRONG START for prediction = 1
\* and p >= 0.7, CONSIDER STARTING for prediction = 1 and p < 0.7, AVOID for
\* prediction # 1 and p >= 0.7, CONSIDER BENCHING for prediction # 1 and
\* p < 0.7; exactly one of the four is returned.
C13_RecommendationTiers ==
    advice.recommendation # "none" =>
        /\ advice.recommendation
              \in {"STRONG START", "CONSIDER STARTING", "AVOID",
                   "CONSIDER BENCHING"}
        /\ (advice.prediction = 1 /\ advice.probability >= Tenths(7))
              => advice.recommendation = "STRONG START"
        /\ (advice.prediction = 1 /\ advice.probability < Tenths(7))
              => advice.recommendation = "CONSIDER STARTING"
        /\ (advice.prediction # 1 /\ advice.probability >= Tenths(7))
              => advice.recommendation = "AVOID"
        /\ (advice.prediction # 1 /\ advice.probability < Tenths(7))
              => advice.recommendation = "CONSIDER BENCHING"

\* a prediction that is neither 0 nor 1, at the boundary 0.7
C13_Witness ==
    /\ advice.prediction = 2
    /\ advice.probability = Tenths(7)
    /\ advice.recommendation = "AVOID"

\* C15: for two non-error results _display_comparison recommends the player
\* with the strictly larger over_perform_probability, with a margin equal to
\* the absolute difference of the probabilities, reports a tie iff they are
\* equal, and gives the same winner and margin with the arguments swapped; if
\* either result carries an error, no recommendation is made.
C15_ComparisonFavoursLarger ==
    comparison.called =>
        LET r1 == comparison.result1
            r2 == comparison.result2
            p1 == r1.over_perform_probability
            p2 == r2.over_perform_probability
            swapped == display_comparison(r2, r1)
        IN  IF "error" \in r1.keys \/ "error" \in r2.keys
            THEN comparison.verdict = "none"
            ELSE /\ comparison.verdict = "tie" <=> p1 = p2
                 /\ p1 > p2 => /\ comparison.verdict = "winner"
                               /\ comparison.winner = r1.player_name
                 /\ p2 > p1 => /\ comparison.verdict = "winner"
                               /\ comparison.winner = r2.player_name
                 /\ comparison.margin = Abs(p1 - p2)
                 /\ swapped.verdict = comparison.verdict
                 /\ swapped.winner = comparison.winner
                 /\ swapped.margin = comparison.margin

\* 0.58 against 0.62: the second player is recommended by 0.04
C15_Witness ==
    /\ comparison.called
    /\ comparison.result1.over_perform_probability = 5800
    /\ comparison.result2.over_perform_probability = 6200
    /\ comparison.winner = comparison.result2.player_name
    /\ comparison.margin = 400

(***************************************************************************)
(* Properties of the engineered table                                      *)
(***************************************************************************)
\* C16: engineer_all_features raises if and only if the table lacks both the
\* over_performed column and the (fantasy_points, projection) pair; a table
\* with the flag, or with both columns of the pair, is engineered without
\* error.
C16_RaisesIffNoTargetSource ==
    engineered.status # "none" =>
        (engineered.status # "ok"
            <=> /\ "over_performed" \notin columns
                /\ ~ ("fantasy_points" \in columns /\ "projection" \in columns))

KeyCount(df, k) == Cardinality({i \in 1..Len(df) : Key(df[i]) = k})

\* C17: whenever engineer_all_features returns, the output has exactly one
\* row for each input row (the same multiset of (player_name, season, week)
\* keys), and the table passed by the caller is left unmodified.
C17_OneRowPerInputRow ==
    /\ [](Engineered =>
            /\ Len(engineered.rows) = Len(table)
            /\ \A i \in 1..Len(table) :
                  KeyCount(engineered.rows, Key(table[i]))
                    = KeyCount(table, Key(table[i])))
    /\ [][engineered'.status = "ok" => table' = table]_vars

\* an engineered table with rows of both targets and a repeated key
C17_Witness ==
    /\ Engineered
    /\ Len(table) = 3
    /\ \E i, j \in 1..Len(table) : i # j /\ Key(table[i]) = Key(table[j])
    /\ \E i, j \in 1..Len(engineered.rows) :
          engineered.rows[i].target = 0 /\ engineered.rows[j].target = 1

\* C18: for every player row with at least 6 periods of history,
\* fantasy_points_trend_3v3 is the mean of the player's last 3 values minus
\* the mean of the 3 values immediately before them.
C18_TrendOfAdjacentWindows ==
    (Engineered /\ KeysUnique(table)) =>
        \A t \in Range(table) :
            Cardinality(History(table, t)) >= 6 =>
                LET hist == History(table, t)
                    last3 == Latest(hist, 3)
                    prior3 == Latest(hist, 6) \ last3
                    q == EngineeredRow(t).trend_3v3["fantasy_points"]
                IN  /\ q[2] > 0
                    /\ q[1] * 3
                         = q[2] * (SumOver(last3, "fantasy_points")
                                     - SumOver(prior3, "fantasy_points"))

(***************************************************************************)
(* Properties of the metadata integration                                  *)
(***************************************************************************)
MetadataOf(player_name) ==
    SelectSeq(metadata_df,
              LAMBDA m : Strip(Lower(m.Player)) = Strip(Lower(player_name)))

\* C19: for a matched player with metadata in a season earlier than the
\* target season and none for the target season, player_age of the target
\* season rows is the age of the most recent earlier season plus the number
\* of seasons between them; a player without any metadata keeps null
\* player_age, games_played and games_started.
C19_AgeExtrapolatedFromEarlierSeason ==
    result_df # NotAdded =>
        \A i \in 1..Len(result_df) :
            LET row == result_df[i]
                records == MetadataOf(row.player_name)
                earlier == {records[j].Season : j \in 1..Len(records)}
                              \cap 0..(row.season - 1)
                latest == SelectSeq(records,
                                    LAMBDA m : m.Season = MaxOf(earlier))[1]
            IN  /\ records = <<>> =>
                      /\ IsNaN(row.player_age)
                      /\ IsNaN(row.games_played)
                      /\ IsNaN(row.games_started)
                /\ (/\ earlier # {}
                    /\ \A j \in 1..Len(records) : records[j].Season # row.season)
                      => row.player_age
                           = Int2Frac(latest.Age + (row.season - latest.Season))

NormalForm(name) == Strip(Lower(name))

RemovePunctuation(name) == Remove(Remove(name, <<"'">>), <<".">>)

GenerationalSuffixes ==
    {<<" ", "j", "r">>, <<" ", "s", "r">>, <<" ", "i", "i">>,
     <<" ", "i", "i", "i">>}

\* the name without a trailing generational suffix token
WithoutSuffix(name) ==
    LET cut == {k \in 1..Len(name) : SubSeq(name, k, Len(name))
                                        \in GenerationalSuffixes}
    IN  IF cut = {} THEN name
        ELSE Strip(SubSeq(name, 1, (CHOOSE k \in cut : TRUE) - 1))

\* two names differ only by case, surrounding whitespace, apostrophes or
\* periods and a trailing generational suffix
SameName(a, b) ==
    WithoutSuffix(Strip(RemovePunctuation(Lower(a))))
      = WithoutSuffix(Strip(RemovePunctuation(Lower(b))))

\* C20: _fuzzy_match_player_names matches a name to a candidate whenever the
\* two differ only by letter case, surrounding whitespace, apostrophes or
\* periods and/or a trailing generational suffix; a candidate equal to the
\* query under case and whitespace normalization takes precedence; the
\* result is None or a member of the candidate list.
C20_MatchesNameVariants ==
    match_call.called =>
        LET query == match_call.player_name
            candidates == Range(match_call.candidate_names)
            result == match_call.result
        IN  /\ result # None => result \in candidates
            /\ (\E c \in candidates : SameName(c, query)) => result # None
            /\ (\E c \in candidates : NormalForm(c) = NormalForm(query))
                  => (result # None /\ NormalForm(result) = NormalForm(query))
            /\ (\A c \in candidates : ~ SameName(c, query)) => result = None

(***************************************************************************)
(* Properties of the feature-column sidecar                                *)
(***************************************************************************)
\* C21: the feature-column list load_model reads back is the list save_model
\* wrote: the same names in the same order and number, for every list of
\* column names the training pipeline can produce.
C21_SidecarRoundTrip ==
    read_back.done => read_back.columns = saved

\* the round trip of the names that neither begin nor end with whitespace
SidecarRoundTripOfTrimmedNames ==
    (read_back.done /\ \A i \in 1..Len(saved) : Strip(saved[i]) = saved[i])
        => read_back.columns = saved

(***************************************************************************)
(* Properties of the selected features                                     *)
(***************************************************************************)
\* the table with the score of row i replaced
WithPoints(df, i, points) == [df EXCEPT ![i].fantasy_points = points]

\* the cells of an engineered row in the columns get_feature_columns selects
SelectedFeatures(r) ==
    [f \in (DOMAIN r) \ (exclude_cols \cup NonNumeric) |-> r[f]]

\* C22: no selected feature column depends on the same row's outcome: for
\* two tables that differ in the fantasy_points of one row only, that row has
\* the same values in all selected feature columns after engineering.
C22_FeaturesIgnoreOwnOutcome ==
    Engineered =>
        \A i \in 1..Len(table), points \in Points :
            LET other == engineer_all_features(WithPoints(table, i, points),
                                               columns, rolling_windows).rows
            IN  \A k \in 1..Len(other) :
                    other[k].fantasy_points
                            # engineered.rows[k].fantasy_points
                        => SelectedFeatures(other[k])
                              = SelectedFeatures(engineered.rows[k])

\* C23: {stat}_consistency is 1 / (1 + s), s the sample standard deviation
\* of the player's latest min(5, n) values and s = 0 before 2 periods are
\* observed; it lies in (0, 1] and is 1 at a player's first period.  (Cells
\* hold the variance s^2; the number 0 is the cell InvZero.)
C23_ConsistencyOfLatestFive ==
    (Engineered /\ KeysUnique(table)) =>
        \A t \in Range(table) :
          \A st \in Present(trend_stats, columns) :
            LET hist == History(table, t)
                n == Cardinality(hist)
                k == Min(5, n)
                total == SumOver(Latest(hist, k), st)
                q == EngineeredRow(t).consistency[st]
            IN  /\ q # InvZero
                /\ q[2] > 0
                /\ n < 2 => q = <<0, 1>>
                /\ n >= 2 =>
                      q[1] * (k * k * (k - 1))
                          = q[2] * SumSqDev(Latest(hist, k), st, k, total)

(***************************************************************************)
(* Properties of the training pipeline                                     *)
(***************************************************************************)
\* C26: train_and_evaluate runs load, prepare features, split, fit on the
\* training split only, evaluate, feature importance, save, in this order;
\* when a step before save raises, no file of the models directory is written
\* or replaced.
C26_FailureBeforeSaveKeepsArtifacts ==
    [][\A df \in TrainingTables \cup {NoTable} :
          train_and_evaluate(df) =>
            /\ last_call'.error # "none" => files' = files
            /\ feature_columns' # feature_columns => df # NoTable
            /\ last_call'.fitted =>
                  /\ split_error(df.classes) = "ok"
                  /\ feature_columns' = List(get_feature_columns(df.cols))
                  /\ model' = RandomForest(get_feature_columns(df.cols))
                  /\ last_call'.train = TrainClasses(df.classes)
            /\ files' # files =>
                  /\ last_call'.fitted
                  /\ evaluate_error(df.classes) = "ok"]_vars

\* a run that failed in evaluate_model after a fit, beside the complete
\* artifact of an earlier run
C26_Witness ==
    /\ last_call.op = "train_and_evaluate"
    /\ last_call.step = "evaluate"
    /\ last_call.error # "none"
    /\ last_call.fitted
    /\ files[default_model_name] \notin {Absent, Partial}
    /\ files[feature_file] = Text(files[default_model_name][2])
    /\ model # files[default_model_name]

(***************************************************************************)
(* Properties of the engineered columns                                    *)
(***************************************************************************)
\* C27: engineer_all_features completes for every configured non-empty list
\* of positive window sizes and produces the rolling mean and rolling std
\* columns for exactly the configured windows and every statistic of the
\* fixed set that the input carries.
C27_CompletesForEveryWindowList ==
    engineered.status # "none" =>
        /\ engineered.status = "ok"
        /\ \A i \in 1..Len(engineered.rows) :
              LET r == engineered.rows[i]
              IN  /\ DOMAIN r.rolling = Present(stat_columns, columns)
                  /\ DOMAIN r.rolling_std = Present(stat_columns, columns)
                  /\ \A st \in Present(stat_columns, columns) :
                        /\ DOMAIN r.rolling[st] = Range(rolling_windows)
                        /\ DOMAIN r.rolling_std[st] = Range(rolling_windows)

\* the fields of an engineered row that hold one column per statistic, per
\* statistic and window, or per team
NestedFields ==
    {"rolling", "rolling_std", "trend_3v3", "week_change", "consistency",
     "team_dummies"}

\* the names of the columns of an engineered row, a derived name as the
\* tuple of its parts
ColumnNames(r) ==
    {<<f>> : f \in (DOMAIN r) \ NestedFields}
      \cup UNION {{<<st, "rolling", w>> : w \in DOMAIN r.rolling[st]} :
                     st \in DOMAIN r.rolling}
      \cup UNION {{<<st, "rolling", w, "std">> : w \in DOMAIN r.rolling_std[st]} :
                     st \in DOMAIN r.rolling_std}
      \cup {<<st, "trend_3v3">> : st \in DOMAIN r.trend_3v3}
      \cup {<<st, "week_change">> : st \in DOMAIN r.week_change}
      \cup {<<st, "consistency">> : st \in DOMAIN r.consistency}
      \cup {<<"team", tm>> : tm \in DOMAIN r.team_dummies}

\* C28: the column names engineer_all_features produces depend on the input
\* column names and the configuration only: the table of any single row of a
\* training table yields the column names the training table yields.
C28_ColumnsIndependentOfValues ==
    Engineered =>
        \A i \in 1..Len(table) :
            LET single == engineer_all_features(<<table[i]>>, columns,
                                                rolling_windows)
            IN  /\ single.status = "ok"
                /\ ColumnNames(single.rows[1])
                      = ColumnNames(engineered.rows[1])

\* the rolling, trend, week-change, consistency and projection-derived cells
FrameFields ==
    {"rolling", "rolling_std", "trend_3v3", "week_change", "consistency",
     "projection_error", "projection_accuracy_rolling_5",
     "projection_vs_recent", "projection_confidence"}

FrameFeatures(r) == [f \in FrameFields \cap DOMAIN r |-> r[f]]

\* the table without its row i
RemoveRow(df, i) == SubSeq(df, 1, i - 1) \o SubSeq(df, i + 1, Len(df))

\* u is a row of the player of t at the period of t or an earlier one
InHistory(u, t) == u.player_name = t.player_name /\ ~ Earlier(t, u)

Ranked == [i \in 1..Len(rankings.rows) |-> rankings.rows[i].player]

\* the section of the report printed under each recommendation
SectionOf ==
    [tier \in {"STRONG START", "CONSIDER STARTING", "AVOID",
               "CONSIDER BENCHING"} |->
        CASE tier = "STRONG START" -> sections.strong_starts
          [] tier = "CONSIDER STARTING" -> sections.consider_starts
          [] tier = "AVOID" -> sections.avoid_players
          [] tier = "CONSIDER BENCHING" -> sections.consider_bench]

\* C24: in the report every collected result is listed in exactly one tier
\* section, the one named by its recommendation field: each section holds
\* the results of its recommendation, all of them and no others.
C24_SectionsFollowRecommendation ==
    rankings.generated =>
        \A tier \in DOMAIN SectionOf :
            SectionOf[tier]
                = SelectSeq(Ranked, LAMBDA r : r.recommendation = tier)

\* C25: every result in the report generate_report(week, season) returned
\* was predicted for that week and season, and no (player, week, season)
\* appears in it more than once.
C25_ReportOfOnePeriodWithoutRepeats ==
    rankings.generated =>
        /\ \A i \in 1..Len(Ranked) :
              <<Ranked[i].week, Ranked[i].season>> = report_period
        /\ \A i, j \in 1..Len(Ranked) :
              (/\ Ranked[i].player_name = Ranked[j].player_name
               /\ Ranked[i].week = Ranked[j].week
               /\ Ranked[i].season = Ranked[j].season) => i = j

\* the prediction is the class of the larger probability
LikelierClass(r) ==
    /\ r.prediction = 0 => r.over_perform_probability <= Tenths(5)
    /\ r.prediction = 1 => r.over_perform_probability >= Tenths(5)

\* C30: a result whose prediction is the class of the larger probability is
\* never recommended AVOID and never listed in the AVOID section, the 0.7
\* threshold being tested against the positive-class probability for both
\* classes.
C30_LikelierClassNeverAvoid ==
    /\ \A i \in 1..Len(returned) :
          ("error" \notin returned[i].keys /\ LikelierClass(returned[i]))
              => returned[i].recommendation # "AVOID"
    /\ rankings.generated =>
          \A i \in 1..Len(sections.avoid_players) :
              ~ LikelierClass(sections.avoid_players[i])

\* a report of results that all predict the likelier class, under-performers
\* of probability 0.3 and less among them, its AVOID section empty
C30_Witness ==
    /\ rankings.generated
    /\ \A i \in 1..Len(Ranked) : LikelierClass(Ranked[i])
    /\ \E i \in 1..Len(Ranked) :
          /\ Ranked[i].prediction = 0
          /\ Ranked[i].over_perform_probability <= Tenths(3)
          /\ Ranked[i].recommendation = "CONSIDER BENCHING"
    /\ sections.avoid_players = <<>>
    /\ sections.strong_starts # <<>>
====
